---------------------------- MODULE Spec2Model ----------------------------
(***************************************************************************)
(* Verification model of libdvbdab: the FIC/FIG completion detector        *)
(* (DABParser), the EnsembleManager that routes UDP/EDI and ETI-NA input   *)
(* to per-stream parsers and fires the callbacks, and the two PF fragment  *)
(* reassemblers (PF_Reassembler::add_fragment and EdiParser::feed).        *)
(*                                                                         *)
(* Each component has its own next-state relation and specification        *)
(* (SpecFIC, SpecEM, SpecPF); Spec runs them side by side.                 *)
(***************************************************************************)
EXTENDS Integers, Sequences, FiniteSets, TLC

VARIABLES
    fic,            \* one DABParser, driven frame by frame
    svc_run,        \* history: consecutive processed frames that left the service count unchanged
    valid_run       \* history: consecutive processed frames that left the valid-service count unchanged

VARIABLES
    parsers,                \* EnsembleManager::parsers_ (StreamKey -> the stream's FIC parser)
    etina_parsers,          \* EnsembleManager::etina_parsers_ (PID -> DABParser)
    ensembles,              \* EnsembleManager::ensembles_
    basic_ready_flags,      \* EnsembleManager::basic_ready_flags_
    complete_flags,         \* EnsembleManager::complete_flags_
    last_subchannel_map,    \* EnsembleManager::last_subchannel_map_
    complete_count,         \* EnsembleManager::complete_count_
    nBasic,                 \* history: basic_ready callbacks per key since the last reset()
    nComplete,              \* history: complete callbacks per key since the last reset()
    calllog,                \* history: the callbacks fired by the last call, in order
    subch_moved             \* history: the last call fed a completed UDP stream a frame that moves a service

VARIABLES
    collectors,             \* PF_Reassembler::collectors_ (Pseq -> PF_Collector)
    pf_collectors,          \* EdiParser::pf_collectors_ (Pseq -> PfCollector)
    delivered,              \* history: the PF fragments delivered to both reassemblers, in order
    af_out,                 \* history: the AF packets add_fragment has returned
    edi_af_out              \* history: the AF packets feed has handed to handleAfPacket

VARIABLES
    edi,                    \* DABStreamParser::edi_ (EDI_Builder)
    eti_count,              \* DABStreamParser::eti_count_ (frames assembled and emitted)
    eti,                    \* EdiParser::eti_ (EtiBuilder)
    edi_frames,             \* history: ETI frames EdiParser has handed to its callback
    af_in,                  \* history: the AF packets handled so far, in order
    af_rejected             \* history: handle_af_packet returned -1 for the last packet

varsFIC == <<fic, svc_run, valid_run>>

varsAF == <<edi, eti_count, eti, edi_frames, af_in, af_rejected>>

VARIABLES
    mpe_src,                \* an MpeTsSource set up for TargetPid
    gse_src,                \* a GseTsSource
    scan,                   \* TsScanner::Impl: the PidState of TargetPid, total_packets
    ts_in,                  \* history: the TS packet handled last
    ts_odd                  \* history: packets so far that were not plain in-order ones

varsTS == <<mpe_src, gse_src, scan, ts_in, ts_odd>>

VARIABLES
    fed,                    \* history: bytes of the sequence handed to feed() so far
    src_partial,            \* MpeTsSource::partial_ts_, GseTsSource::partial_ts_
    src_packets,            \* history: the packets the source has processed
    scan_partial,           \* TsScanner::Impl::partial_ts
    scan_packets,           \* history: the packets the scanner has processed
    scan_done,              \* TsScanner::Impl::done
    scan_taken,             \* history: bytes fed to the scanner before it was done
    chunks,                 \* history: feed() calls so far
    mid_split               \* history: a chunk has ended inside a packet

varsFeed == <<fed, src_partial, src_packets, scan_partial, scan_packets, scan_done,
              scan_taken, chunks, mid_split>>

VARIABLES
    fib_parser,             \* a DABParser handed FIBs one by one
    fib_count,              \* DABParser::fib_count_
    fib_in                  \* history: the FIB handled last

varsFIB == <<fib_parser, fib_count, fib_in>>

VARIABLES
    gse,                    \* a GseParser: fragments_, packet_count_, fragment_count_
    gse_out,                \* history: the IPv4 packets handed to the callback
    gse_in,                 \* history: the GSE packet handled last
    gse_first,              \* history: protocol of the last first fragment of each fragment-ID
    gse_n                   \* history: GSE packets handled so far

varsGSE == <<gse, gse_out, gse_in, gse_first, gse_n>>

VARIABLES
    strip,                  \* an EtinaOffsetState
    strip_out,              \* what etina_strip_padding returned last
    strip_in,               \* history: the payload handled last
    strip_seen,             \* history: leading 0xFF counts of the first 5 payloads
    strip_n                 \* history: payloads handled so far

varsStrip == <<strip, strip_out, strip_in, strip_seen, strip_n>>

VARIABLES
    cand,                   \* a TsScanner: the PidState of a PID without PUSI, eti_out
    eti_k                   \* history: ETI-NI frames emitted so far, modulo 2

varsCand == <<cand, eti_k>>

VARIABLES
    asm_edi,                \* the EDI_Builder of a DABStreamParser
    asm_eti,                \* the EtiBuilder of an EdiParser
    asm_frame,              \* the frame the DABStreamParser assembled last
    asm_edi_frame,          \* the frame the EdiParser assembled last
    asm_n,                  \* history: AF packets assembled so far
    asm_tags                \* history: the TAG items of the last AF packet

varsAsm == <<asm_edi, asm_eti, asm_frame, asm_edi_frame, asm_n, asm_tags>>

VARIABLES
    impl,                   \* TsScanner::Impl: what the end of the scan depends on
    scan_elapsed,           \* milliseconds since the first feed() call
    scan_ret,               \* what feed() returned last
    scan_first_done,        \* history: the step before was the feed() call that set done
    scan_basic_seen         \* history: streams whose parser has been basic-ready

varsScan == <<impl, scan_elapsed, scan_ret, scan_first_done, scan_basic_seen>>

VARIABLES
    disc,                   \* EnsembleDiscovery::Impl, with the flags of its EnsembleManager
    disc_elapsed,           \* milliseconds since construction
    disc_ret,               \* what feedIpPacket returned last
    disc_why,               \* history: the check that set done
    disc_done_at,           \* history: disc_elapsed when done was set
    disc_unicast_only,      \* history: every packet fed so far was unicast UDP
    disc_unicast_late       \* history: a call at or after early_ms, only unicast fed up to it

varsDisc == <<disc, disc_elapsed, disc_ret, disc_why, disc_done_at, disc_unicast_only,
              disc_unicast_late>>

VARIABLES
    udp_in,                 \* history: the datagram handled last
    udp_out,                \* what extractUdpFromIpv4 made of it
    udp_em_out,             \* what EnsembleManager::processIpPacket made of it
    udp_n                   \* history: datagrams handled so far

varsUdp == <<udp_in, udp_out, udp_em_out, udp_n>>

VARIABLES
    streamer,               \* a UdpTsStreamer: running_, packet_queue_, the datagram buffer
    producer_pc,            \* where the producer is in sendPacket
    sender_pc,              \* where the sender thread is in senderThread
    stop_pc,                \* where the caller of stop() is
    sender_datagram,        \* senderThread: datagram
    wire,                   \* history: what sendto has been called with, in order
    enqueued,               \* history: the datagrams pushed on the queue, in order
    stop_enqueued,          \* history: the datagrams pushed before stop() was called
    send_calls              \* history: sendPacket calls so far

varsStream == <<streamer, producer_pc, sender_pc, stop_pc, sender_datagram, wire, enqueued,
                stop_enqueued, send_calls>>

varsPF == <<collectors, pf_collectors, delivered, af_out, edi_af_out>>

varsEM == <<parsers, etina_parsers, ensembles, basic_ready_flags, complete_flags,
            last_subchannel_map, complete_count, nBasic, nComplete, calllog, subch_moved>>

vars == <<varsFIC, varsEM, varsPF, varsAF, varsTS, varsFeed, varsFIB, varsGSE, varsStrip,
          varsCand, varsAsm, varsScan, varsDisc, varsUdp, varsStream>>

---------------------------------------------------------------------------
(* Input alphabets and bounds                                              *)

Sids == {1, 2}                  \* service identifiers carried by FIG 0/2 and FIG 1/1
SubchIds == {0, 1}              \* sub-channel identifiers carried by FIG 0/1 and FIG 0/2
Labels == {"", "A"}             \* a label after trimming: all spaces (empty) or text
JunkVals == {0, 99}             \* values an uninitialised int field may hold (one in SubchIds, one not)
Junk == {[s \in Sids |-> v] : v \in JunkVals}

Absent == -1                    \* std::map has no entry / primary_subch < 0
NoLabel == "<none>"             \* service_labels_ has no entry for the SID

BASIC_STABLE_FRAMES == 3        \* dab_parser.cpp:229
COMPLETE_STABLE_FRAMES == 10    \* dab_parser.cpp:260

MaxStableFrames == 11           \* frames are fed while stable_frames_ is below this

Min(a, b) == IF a < b THEN a ELSE b

---------------------------------------------------------------------------
(* FIGs and frames                                                         *)

Fig(t, sid, subch, label) == [fig |-> t, sid |-> sid, subch |-> subch, label |-> label]

\* The decoded content of the FIGs the parser acts on.  "0/2" with subch =
\* Absent is a service none of whose components is flagged primary.
FigOps ==
    {Fig("0/1", 0, c, "") : c \in SubchIds}
    \cup {Fig("0/2", 1, c, "") : c \in SubchIds \cup {Absent}}
    \cup {Fig("0/2", 2, 1, "")}
    \cup {Fig("1/0", 0, Absent, l) : l \in Labels}
    \cup {Fig("1/1", s, Absent, "A") : s \in Sids}

\* The FIC of one frame: no FIG, one FIG, or a sub-channel and a service that
\* uses it announced together.
FigSeqs ==
    {<<>>} \cup {<<f>> : f \in FigOps}
    \cup {<<Fig("0/1", 0, 0, ""), Fig("0/2", 1, 0, "")>>}

\* An ETI-NI frame as process_eti_frame sees it: too short, wrong sync word,
\* FICF = 0, FIC running past the frame, or a frame whose FIC holds `figs`.
FrameKinds == {"short", "badsync", "nofic", "truncated", "fic"}
Frames == {[kind |-> k, figs |-> <<>>] : k \in FrameKinds \ {"fic"}}
          \cup {[kind |-> "fic", figs |-> f] : f \in FigSeqs}

---------------------------------------------------------------------------
(* DABParser                                                               *)

DABParserNew ==
    [ subchannels |-> {},
      service_map |-> [s \in Sids |-> Absent],
      service_labels |-> [s \in Sids |-> NoLabel],
      ensemble_label |-> "",
      labelled |-> FALSE,
      basic_ready |-> FALSE,
      ensemble |-> [label |-> "", services |-> <<>>],
      last_basic_service_count |-> 0,
      basic_stable_frames |-> 0,
      last_service_count |-> 0,
      stable_frames |-> 0 ]

\* SIDs that have an entry in service_map_
Known(p) == {s \in Sids : p.service_map[s] # Absent}

\* Services whose primary sub-channel is in subchannels_ (valid_services)
ValidServices(p) == {s \in Known(p) : p.service_map[s] \in p.subchannels}

\* Services that have an entry in service_labels_ (labelled_count)
LabelledServices(p) == {s \in Known(p) : p.service_labels[s] # NoLabel}

ProcessFig0(p, f) ==
    CASE f.fig = "0/1" -> [p EXCEPT !.subchannels = @ \cup {f.subch}]
      [] f.fig = "0/2" -> IF f.subch >= 0
                          THEN [p EXCEPT !.service_map[f.sid] = f.subch]
                          ELSE p
      [] OTHER -> p

ProcessFig1(p, f) ==
    CASE f.fig = "1/0" -> [p EXCEPT !.ensemble_label = f.label]
      [] f.fig = "1/1" -> [p EXCEPT !.service_labels[f.sid] = f.label]
      [] OTHER -> p

ProcessFig(p, f) ==
    IF f.fig \in {"0/1", "0/2"} THEN ProcessFig0(p, f) ELSE ProcessFig1(p, f)

RECURSIVE ProcessFic(_, _)
ProcessFic(p, figs) ==
    IF figs = <<>> THEN p
    ELSE ProcessFic(ProcessFig(p, Head(figs)), Tail(figs))

\* The elements of a set of integers in increasing order
RECURSIVE SortedSeq(_)
SortedSeq(S) ==
    IF S = {} THEN <<>>
    ELSE LET m == CHOOSE x \in S : \A y \in S : x <= y
         IN <<m>> \o SortedSeq(S \ {m})

\* build_ensemble: one DABService per entry of service_map_, sorted by SID.
\* The sub-channel fields are assigned only when the primary sub-channel is
\* in subchannels_; otherwise svc.subchannel_id keeps the indeterminate value
\* of the default-initialised struct, junk[sid].
BuildEnsemble(p, junk) ==
    LET sids == SortedSeq(Known(p))
        svc(s) == [ sid |-> s,
                    label |-> IF p.service_labels[s] # NoLabel
                              THEN p.service_labels[s] ELSE "",
                    subchannel_id |-> IF p.service_map[s] \in p.subchannels
                                      THEN p.service_map[s] ELSE junk[s] ]
    IN [ label |-> p.ensemble_label,
         services |-> [i \in 1..Len(sids) |-> svc(sids[i])] ]

\* process_eti_frame, the basic-ready block
CheckBasicReady(p) ==
    LET valid_services == Cardinality(ValidServices(p))
    IN IF p.basic_ready \/ Known(p) = {} \/ valid_services = 0 THEN p
       ELSE LET q == IF valid_services # p.last_basic_service_count
                     THEN [p EXCEPT !.last_basic_service_count = valid_services,
                                    !.basic_stable_frames = 0]
                     ELSE [p EXCEPT !.basic_stable_frames = @ + 1]
            IN IF q.basic_stable_frames >= BASIC_STABLE_FRAMES
               THEN [q EXCEPT !.basic_ready = TRUE]
               ELSE q

\* A completion block that keeps counting across a change of the service
\* count instead of restarting the run.
CheckCompleteNoRestart(p) ==
    IF Known(p) = {} THEN p
    ELSE LET n == Cardinality(Known(p))
             q == [p EXCEPT !.last_service_count = n, !.stable_frames = @ + 1]
             all_labelled == Cardinality(LabelledServices(q)) = n
                             /\ q.ensemble_label # ""
             stable == q.stable_frames >= COMPLETE_STABLE_FRAMES
         IN IF all_labelled /\ stable THEN [q EXCEPT !.labelled = TRUE] ELSE q

\* process_eti_frame, the completion block
CheckComplete(p) ==
    IF Known(p) = {} THEN p
    ELSE LET n == Cardinality(Known(p))
             q == IF n # p.last_service_count
                  THEN [p EXCEPT !.last_service_count = n, !.stable_frames = 0]
                  ELSE [p EXCEPT !.stable_frames = @ + 1]
             all_labelled == Cardinality(LabelledServices(q)) = n
                             /\ q.ensemble_label # ""
             stable == q.stable_frames >= COMPLETE_STABLE_FRAMES
         IN IF all_labelled /\ stable THEN [q EXCEPT !.labelled = TRUE] ELSE q

\* The indeterminate values a call can read: any, when processing the frame
\* leaves a service whose sub-channel is unknown; otherwise none is read.
JunkRead(p, frame) ==
    IF ~p.labelled /\ frame.kind = "fic"
       /\ \E q \in {ProcessFic(p, frame.figs)} : ValidServices(q) # Known(q)
    THEN Junk
    ELSE {CHOOSE j \in Junk : TRUE}

\* The parser a std::map lookup finds, or the fresh one created in its place
ParserAt(map, k) == IF k \in DOMAIN map THEN map[k] ELSE DABParserNew

ProcessEtiFrame(p, frame, junk) ==
    IF p.labelled THEN p
    ELSE IF frame.kind # "fic" THEN p
    ELSE LET p1 == ProcessFic(p, frame.figs)
             p2 == IF Known(p1) # {}
                   THEN [p1 EXCEPT !.ensemble = BuildEnsemble(p1, junk)]
                   ELSE p1
         IN CheckComplete(CheckBasicReady(p2))

---------------------------------------------------------------------------
(* The parser driven on its own                                            *)

\* Length of the run of processed frames (frames whose FIC was parsed) over
\* which a count has stayed the same, saturating at cap.
Run(frame, old, new, run, cap) ==
    IF frame.kind # "fic" THEN run
    ELSE IF old = new THEN Min(run + 1, cap) ELSE 0

InitFIC ==
    /\ fic = DABParserNew
    /\ svc_run = 0
    /\ valid_run = 0

\* Frames are fed to a parser until its stability counter reaches the bound;
\* a labelled parser ignores its input, so it may be fed for ever.
MayFeed(p) == p.labelled \/ p.stable_frames < MaxStableFrames

FicFrame ==
    /\ fic.stable_frames < MaxStableFrames
    /\ UNCHANGED <<varsEM, varsPF, varsAF, varsTS, varsFeed, varsFIB, varsGSE, varsStrip, varsCand,
                   varsAsm, varsScan, varsDisc,
                   varsUdp, varsStream>>
    /\ \E frame \in Frames : \E junk \in JunkRead(fic, frame) :
         \E q \in {ProcessEtiFrame(fic, frame, junk)} :
            /\ fic' = q
            /\ svc_run' = IF fic.labelled THEN svc_run
                          ELSE Run(frame, Cardinality(Known(fic)), Cardinality(Known(q)),
                                   svc_run, COMPLETE_STABLE_FRAMES)
            /\ valid_run' = IF fic.labelled THEN valid_run
                            ELSE Run(frame, Cardinality(ValidServices(fic)),
                                     Cardinality(ValidServices(q)),
                                     valid_run, BASIC_STABLE_FRAMES)

FicReset ==
    /\ fic # DABParserNew
    /\ fic' = DABParserNew
    /\ svc_run' = 0
    /\ valid_run' = 0
    /\ UNCHANGED <<varsEM, varsPF, varsAF, varsTS, varsFeed, varsFIB, varsGSE, varsStrip, varsCand,
                   varsAsm, varsScan, varsDisc,
                   varsUdp, varsStream>>

NextFIC == FicFrame \/ FicReset

---------------------------------------------------------------------------
(* Claims about the completion detector (checked under SpecFIC)            *)

\* C6: the parser is complete only if every known service has a label, the
\* ensemble label is present, and the service count has stayed unchanged over
\* at least 10 consecutive processed frames; a change of the count restarts
\* the run, so completion waits for 10 stable frames after the change.
C6_CompleteOnlyWhenStable ==
    fic.labelled =>
        /\ Known(fic) # {}
        /\ LabelledServices(fic) = Known(fic)
        /\ fic.ensemble_label # ""
        /\ svc_run >= COMPLETE_STABLE_FRAMES

\* A completed parser whose service count changed (1 -> 2) on the way.
C6_Witness == fic.labelled /\ Cardinality(Known(fic)) = 2

\* C7: the parser becomes basic_ready only on a frame at which the number of
\* valid services is positive and has stayed unchanged over at least 3
\* consecutive processed frames.
C7_BasicReadyOnlyWhenStable ==
    [][ (~fic.basic_ready /\ fic'.basic_ready) =>
            /\ Cardinality(ValidServices(fic')) > 0
            /\ valid_run' >= BASIC_STABLE_FRAMES ]_vars

\* C8: in a complete ensemble every service's subchannel_id is a sub-channel
\* of the ensemble's sub-channel set.
C8_CompleteServicesHaveSubchannel ==
    fic.labelled =>
        \A i \in DOMAIN fic.ensemble.services :
            fic.ensemble.services[i].subchannel_id \in fic.subchannels

---------------------------------------------------------------------------
(* EnsembleManager                                                         *)

\* A StreamKey is <<ip, port>>.  processEtiFrame files an ETI-NA stream under
\* StreamKey{pid, 0}.
UdpKeys == {<<1, 0>>}
EtiPids == {1}
EtiKey(pid) == <<pid, 0>>
Keys == UdpKeys \cup {EtiKey(pid) : pid \in EtiPids}

NO_SUBCHANNEL == 255            \* ensemble_manager.cpp:99
UINT8_RANGE == 256              \* ensemble_manager.cpp:73

\* The FICs carried by the frames fed to the manager: nothing new, a service
\* with its sub-channel, the labels, the service moved to another sub-channel.
EMFigSeqs ==
    { <<>>,
      <<Fig("0/1", 0, 0, ""), Fig("0/2", 1, 0, "")>>,
      <<Fig("1/0", 0, Absent, "A"), Fig("1/1", 1, Absent, "A")>>,
      <<Fig("0/1", 0, 1, ""), Fig("0/2", 1, 1, "")>> }

\* An ETI-NI frame handed to processEtiFrame.
EtiFrames == {[kind |-> "short", figs |-> <<>>]}
             \cup {[kind |-> "fic", figs |-> f] : f \in EMFigSeqs}

\* A UDP payload as the stream parser sees it: one that completes no ETI
\* frame (a PF fragment of an unfinished packet, an undecodable packet), or
\* one from which assemble_eti_frame builds a frame with the given FIC.
UdpPackets == {[frame |-> FALSE, figs |-> <<>>]}
              \cup {[frame |-> TRUE, figs |-> f] : f \in EMFigSeqs}

\* What process_edi_packet hands to the FIC parser: the assembled frame, or
\* nothing (written as a frame the parser does not process).
AssembledFrame(pkt) ==
    IF pkt.frame THEN [kind |-> "fic", figs |-> pkt.figs]
    ELSE [kind |-> "none", figs |-> <<>>]

Event(cb, key, changes) == [cb |-> cb, key |-> key, changes |-> changes]

\* f with the entry for k set to v (std::map::operator[] assignment)
Put(f, k, v) == (k :> v) @@ f

EmptyMap == [x \in {} |-> 0]

\* sid -> static_cast<uint8_t>(subchannel_id) over the services of an ensemble
CurrentMap(ens) ==
    [s \in {ens.services[i].sid : i \in DOMAIN ens.services} |->
        LET i == CHOOSE j \in DOMAIN ens.services : ens.services[j].sid = s
        IN ens.services[i].subchannel_id % UINT8_RANGE]

\* The list of changes processUdp builds from the previous and current maps
SubchannelChanges(prev, cur) ==
    LET changed == SortedSeq({s \in DOMAIN cur : s \notin DOMAIN prev \/ prev[s] # cur[s]})
        removed == SortedSeq(DOMAIN prev \ DOMAIN cur)
    IN [i \in 1..Len(changed) |->
            [sid |-> changed[i],
             old |-> IF changed[i] \in DOMAIN prev THEN prev[changed[i]] ELSE NO_SUBCHANNEL,
             new |-> cur[changed[i]]]]
       \o [i \in 1..Len(removed) |->
            [sid |-> removed[i], old |-> prev[removed[i]], new |-> NO_SUBCHANNEL]]

\* The FIGs move a service away from the sub-channel recorded for it in map
FrameMovesService(figs, map) ==
    \E i \in DOMAIN figs :
        /\ figs[i].fig = "0/2"
        /\ figs[i].subch >= 0
        /\ figs[i].sid \in DOMAIN map
        /\ map[figs[i].sid] # figs[i].subch
        /\ \A j \in DOMAIN figs :
              j > i => ~(figs[j].fig = "0/2" /\ figs[j].sid = figs[i].sid)

InitEM ==
    /\ parsers = EmptyMap
    /\ etina_parsers = EmptyMap
    /\ ensembles = EmptyMap
    /\ basic_ready_flags = EmptyMap
    /\ complete_flags = EmptyMap
    /\ last_subchannel_map = EmptyMap
    /\ complete_count = 0
    /\ nBasic = [k \in Keys |-> 0]
    /\ nComplete = [k \in Keys |-> 0]
    /\ calllog = <<>>
    /\ subch_moved = FALSE

\* processUdp with all four callbacks installed.  getParser creates the
\* stream parser on first use; process_edi_packet runs the FIC parser and the
\* ETI callback on a frame the payload completes.
processUdp(key, pkt, junk) ==
    LET created == key \notin DOMAIN parsers
        parsers1 == IF created THEN Put(parsers, key, DABParserNew) ELSE parsers
        brf1 == IF created THEN Put(basic_ready_flags, key, FALSE) ELSE basic_ready_flags
        cf1 == IF created THEN Put(complete_flags, key, FALSE) ELSE complete_flags
        p == parsers1[key]
    IN
    /\ MayFeed(p)
    /\ \E q \in {ProcessEtiFrame(p, AssembledFrame(pkt), junk)} :
       \E cur \in {CurrentMap(q.ensemble)} :
       LET
        fireBasic == q.basic_ready /\ ~brf1[key]
        brf2 == IF fireBasic THEN Put(brf1, key, TRUE) ELSE brf1
        fireComplete == q.labelled /\ ~cf1[key]
        cf2 == IF fireComplete THEN Put(cf1, key, TRUE) ELSE cf1
        lsm0 == IF key \in DOMAIN last_subchannel_map
                THEN last_subchannel_map[key] ELSE EmptyMap
        lsm1 == IF fireComplete
                THEN Put(last_subchannel_map, key, cur @@ lsm0)
                ELSE last_subchannel_map
        monitoring == cf2[key]
        prev == IF key \in DOMAIN lsm1 THEN lsm1[key] ELSE EmptyMap
        changes == SubchannelChanges(prev, cur)
        lsm2 == IF monitoring
                THEN Put(lsm1, key, IF Len(changes) > 0 THEN cur ELSE prev)
                ELSE lsm1
       IN
       /\ parsers' = Put(parsers1, key, q)
       /\ basic_ready_flags' = brf2
       /\ complete_flags' = cf2
       /\ complete_count' = IF fireComplete THEN complete_count + 1 ELSE complete_count
       /\ ensembles' = IF fireComplete THEN Put(ensembles, key, q.ensemble) ELSE ensembles
       /\ last_subchannel_map' = lsm2
       /\ nBasic' = IF fireBasic THEN [nBasic EXCEPT ![key] = @ + 1] ELSE nBasic
       /\ nComplete' = IF fireComplete THEN [nComplete EXCEPT ![key] = @ + 1] ELSE nComplete
       /\ calllog' =
             (IF pkt.frame THEN <<Event("eti_frame", key, <<>>)>> ELSE <<>>)
             \o (IF fireBasic THEN <<Event("basic_ready", key, <<>>)>> ELSE <<>>)
             \o (IF fireComplete THEN <<Event("complete", key, <<>>)>> ELSE <<>>)
             \o (IF monitoring /\ Len(changes) > 0
                 THEN <<Event("subchannel_change", key, changes)>> ELSE <<>>)
       /\ subch_moved' = /\ ~created
                         /\ parsers[key].labelled
                         /\ complete_flags[key]
                         /\ key \in DOMAIN last_subchannel_map
                         /\ pkt.frame
                         /\ FrameMovesService(pkt.figs, last_subchannel_map[key])
       /\ UNCHANGED <<etina_parsers>>

\* processEtiFrame with the callbacks installed.
processEtiFrame(pid, frame, junk) ==
    LET key == EtiKey(pid)
        created == pid \notin DOMAIN etina_parsers
        etina1 == IF created THEN Put(etina_parsers, pid, DABParserNew) ELSE etina_parsers
        brf1 == IF created THEN Put(basic_ready_flags, key, FALSE) ELSE basic_ready_flags
        cf1 == IF created THEN Put(complete_flags, key, FALSE) ELSE complete_flags
        p == etina1[pid]
    IN
    /\ MayFeed(p)
    /\ \E q \in {ProcessEtiFrame(p, frame, junk)} :
       LET
        fireBasic == q.basic_ready /\ ~brf1[key]
        brf2 == IF fireBasic THEN Put(brf1, key, TRUE) ELSE brf1
        fireComplete == q.labelled /\ ~cf1[key]
        cf2 == IF fireComplete THEN Put(cf1, key, TRUE) ELSE cf1
       IN
       /\ etina_parsers' = Put(etina1, pid, q)
       /\ basic_ready_flags' = brf2
       /\ complete_flags' = cf2
       /\ complete_count' = IF fireComplete THEN complete_count + 1 ELSE complete_count
       /\ ensembles' = IF fireComplete THEN Put(ensembles, key, q.ensemble) ELSE ensembles
       /\ nBasic' = IF fireBasic THEN [nBasic EXCEPT ![key] = @ + 1] ELSE nBasic
       /\ nComplete' = IF fireComplete THEN [nComplete EXCEPT ![key] = @ + 1] ELSE nComplete
       /\ calllog' =
             (IF fireBasic THEN <<Event("basic_ready", key, <<>>)>> ELSE <<>>)
             \o <<Event("eti_frame", key, <<>>)>>
             \o (IF fireComplete THEN <<Event("complete", key, <<>>)>> ELSE <<>>)
       /\ subch_moved' = FALSE
       /\ UNCHANGED <<parsers, last_subchannel_map>>

reset ==
    /\ parsers # EmptyMap \/ etina_parsers # EmptyMap
    /\ parsers' = EmptyMap
    /\ etina_parsers' = EmptyMap
    /\ ensembles' = EmptyMap
    /\ basic_ready_flags' = EmptyMap
    /\ complete_flags' = EmptyMap
    /\ last_subchannel_map' = EmptyMap
    /\ complete_count' = 0
    /\ nBasic' = [k \in Keys |-> 0]
    /\ nComplete' = [k \in Keys |-> 0]
    /\ calllog' = <<>>
    /\ subch_moved' = FALSE

CallUdp ==
    /\ \E key \in UdpKeys, pkt \in UdpPackets :
          \E junk \in JunkRead(ParserAt(parsers, key), AssembledFrame(pkt)) :
             processUdp(key, pkt, junk)
    /\ UNCHANGED <<varsFIC, varsPF, varsAF, varsTS, varsFeed, varsFIB, varsGSE, varsStrip, varsCand,
                   varsAsm, varsScan, varsDisc,
                   varsUdp, varsStream>>

CallEti ==
    /\ \E pid \in EtiPids, frame \in EtiFrames :
          \E junk \in JunkRead(ParserAt(etina_parsers, pid), frame) :
             processEtiFrame(pid, frame, junk)
    /\ UNCHANGED <<varsFIC, varsPF, varsAF, varsTS, varsFeed, varsFIB, varsGSE, varsStrip, varsCand,
                   varsAsm, varsScan, varsDisc,
                   varsUdp, varsStream>>

CallReset == reset /\ UNCHANGED <<varsFIC, varsPF, varsAF, varsTS, varsFeed, varsFIB, varsGSE, varsStrip, varsCand,
                   varsAsm, varsScan, varsDisc,
                   varsUdp, varsStream>>

NextEM == CallUdp \/ CallEti \/ CallReset

---------------------------------------------------------------------------
(* Claims about the EnsembleManager callbacks (checked under SpecEM)       *)

\* C1: with no reset() in between, the complete callback is invoked at most
\* once per stream key, whatever processUdp and processEtiFrame calls are made.
C1_CompleteAtMostOnce == \A k \in Keys : nComplete[k] <= 1

\* C2: with no reset() in between, the basic_ready callback is invoked at most
\* once per stream key.
C2_BasicReadyAtMostOnce == \A k \in Keys : nBasic[k] <= 1

\* C3: no call fires basic_ready for a key for which complete has already
\* been fired by an earlier call.
C3_NoBasicReadyAfterComplete ==
    [][ \A i \in DOMAIN calllog' :
            calllog'[i].cb = "basic_ready" => nComplete[calllog'[i].key] = 0 ]_vars

\* C4: in the processEtiFrame call at which the stream's parser first becomes
\* basic_ready, the basic_ready callback is invoked, and before the eti_frame
\* callback of that frame.
C4_BasicReadyBeforeEtiFrame ==
    [][ \A pid \in EtiPids :
          ( /\ pid \in DOMAIN etina_parsers'
            /\ etina_parsers'[pid].basic_ready
            /\ ~ParserAt(etina_parsers, pid).basic_ready )
          => /\ Len(calllog') >= 2
             /\ calllog'[1].cb = "basic_ready"
             /\ calllog'[2].cb = "eti_frame" ]_vars

\* C5: once complete has fired for a UDP stream, a processUdp call whose frame
\* moves a service to another primary sub-channel invokes subchannel_change
\* with a non-empty list of changes.
C5_SubchannelChangeReported ==
    subch_moved =>
        \E i \in DOMAIN calllog :
            calllog[i].cb = "subchannel_change" /\ Len(calllog[i].changes) > 0


\* What the manager holds for the stream filed under key: flags, stored
\* ensemble and sub-channel map, read from the given maps
EntryAt(map, key) == IF key \in DOMAIN map THEN <<map[key]>> ELSE <<>>
StreamEntries(brf, cf, ens, lsm, key) ==
    <<EntryAt(brf, key), EntryAt(cf, key), EntryAt(ens, key), EntryAt(lsm, key)>>

\* The step is a processUdp call for key, a processEtiFrame call for pid
IsProcessUdp(key) ==
    \E pkt \in UdpPackets :
        \E junk \in JunkRead(ParserAt(parsers, key), AssembledFrame(pkt)) :
            processUdp(key, pkt, junk)
IsProcessEtiFrame(pid) ==
    \E frame \in EtiFrames :
        \E junk \in JunkRead(ParserAt(etina_parsers, pid), frame) :
            processEtiFrame(pid, frame, junk)

\* The UDP stream of key, if the manager has one, keeps its parser and entries
\* over the step; so does the ETI-NA stream of pid, whose entries are those of
\* StreamKey{pid, 0}
UdpStreamKept(key) ==
    key \in DOMAIN parsers =>
    /\ EntryAt(parsers', key) = EntryAt(parsers, key)
    /\ StreamEntries(basic_ready_flags', complete_flags', ensembles',
                     last_subchannel_map', key)
         = StreamEntries(basic_ready_flags, complete_flags, ensembles,
                         last_subchannel_map, key)
EtinaStreamKept(pid) ==
    pid \in DOMAIN etina_parsers =>
    /\ EntryAt(etina_parsers', pid) = EntryAt(etina_parsers, pid)
    /\ StreamEntries(basic_ready_flags', complete_flags', ensembles',
                     last_subchannel_map', EtiKey(pid))
         = StreamEntries(basic_ready_flags, complete_flags, ensembles,
                         last_subchannel_map, EtiKey(pid))

\* C30: a processUdp call for key K leaves the parser, flags, stored ensemble
\* and sub-channel map of every other UDP stream and of every ETI-NA stream as
\* they were, and a processEtiFrame call for PID P leaves those of every UDP
\* stream and of every other ETI-NA stream as they were.
C30_OtherStreamsUntouched ==
    [][/\ \A key \in UdpKeys :
            IsProcessUdp(key) =>
                /\ \A other \in UdpKeys \ {key} : UdpStreamKept(other)
                /\ \A pid \in EtiPids : EtinaStreamKept(pid)
       /\ \A pid \in EtiPids :
            IsProcessEtiFrame(pid) =>
                /\ \A key \in UdpKeys : UdpStreamKept(key)
                /\ \A other \in EtiPids \ {pid} : EtinaStreamKept(other)]_vars

\* EnsembleManager::allComplete
allComplete ==
    IF parsers = EmptyMap THEN FALSE
    ELSE \A key \in DOMAIN complete_flags : complete_flags[key]

\* C33: allComplete() returns true exactly when at least one stream, UDP-keyed
\* or ETI-NA, has been seen and every seen stream has its complete flag set.
C33_AllCompleteExact ==
    allComplete <=>
        /\ parsers # EmptyMap \/ etina_parsers # EmptyMap
        /\ \A key \in DOMAIN parsers : complete_flags[key]
        /\ \A pid \in DOMAIN etina_parsers : complete_flags[EtiKey(pid)]

\* C34: in the processUdp call at which the stream's parser first becomes
\* basic_ready, the basic_ready callback is invoked before the eti_frame
\* callback for the frame assembled from that packet.
C34_UdpBasicReadyBeforeEtiFrame ==
    [][ \A key \in UdpKeys :
          ( /\ IsProcessUdp(key)
            /\ parsers'[key].basic_ready
            /\ ~ParserAt(parsers, key).basic_ready )
          => \E i, j \in DOMAIN calllog' :
                /\ i < j
                /\ calllog'[i] = Event("basic_ready", key, <<>>)
                /\ calllog'[j] = Event("eti_frame", key, <<>>) ]_vars

---------------------------------------------------------------------------
(* PF fragment reassembly: PF_Reassembler::add_fragment, EdiParser::feed   *)

MAX_FCOUNT == 256               \* edi_parser.cpp:45
CLEANUP_ABOVE == 16             \* dab_parser.cpp:805
CLEANUP_DOWN_TO == 8            \* dab_parser.cpp:807

NUM_PF_COLLECTORS == 64         \* dab_parser.h:47

MaxDeliver == 5                 \* fragments delivered in one run (the large packet apart)

Pseqs == {0, 1}

\* A PF datagram: header fields, payload bytes, and whether the datagram is
\* shorter than its header plus plen.
Frag(pseq, findex, fcount, payload, short) ==
    [pseq |-> pseq, findex |-> findex, fcount |-> fcount, payload |-> payload, short |-> short]

\* Per Pseq a one-fragment packet and a two-fragment packet; on Pseq 0 also a
\* fragment index beyond Fcount, Fcount = 0, and a truncated datagram.
Fragments ==
    {Frag(s, 0, 1, <<1>>, FALSE) : s \in Pseqs}
    \cup {Frag(s, 0, 2, <<1>>, FALSE) : s \in Pseqs}
    \cup {Frag(s, 1, 2, <<2, 3>>, FALSE) : s \in Pseqs}
    \cup { Frag(0, 1, 1, <<1>>, FALSE),
           Frag(0, 0, 0, <<1>>, FALSE),
           Frag(0, 0, 2, <<1>>, TRUE) }

\* A packet of one fragment more than EdiParser::feed accepts
LargeFcount == MAX_FCOUNT + 1
LargeFragment(i) == Frag(1, i, LargeFcount, <<7>>, FALSE)

PF_CollectorNew ==
    [fcount |-> 0, fragments_collected |-> 0, processed |-> FALSE, fragments |-> EmptyMap]

PfCollectorNew == [pseq |-> 0, fcount |-> 0, fragments |-> EmptyMap]

\* f without the entry for k (std::map::erase)
Erase(f, k) == [x \in DOMAIN f \ {k} |-> f[x]]

\* The payloads stored under the indices lo .. hi-1, joined in decreasing index
RECURSIVE ConcatDescending(_, _, _)
ConcatDescending(fragments, lo, hi) ==
    IF hi <= lo THEN <<>>
    ELSE IF hi = lo + 1
         THEN (IF lo \in DOMAIN fragments THEN fragments[lo] ELSE <<>>)
         ELSE LET mid == (lo + hi) \div 2
              IN ConcatDescending(fragments, mid, hi) \o ConcatDescending(fragments, lo, mid)

\* The payloads stored under the indices lo .. hi-1, joined in increasing
\* index, as the loops of add_fragment and feed join them (the range is halved
\* rather than walked, to keep the evaluation of a long packet shallow).
RECURSIVE Concat(_, _, _)
Concat(fragments, lo, hi) ==
    IF hi <= lo THEN <<>>
    ELSE IF hi = lo + 1
         THEN (IF lo \in DOMAIN fragments THEN fragments[lo] ELSE <<>>)
         ELSE LET mid == (lo + hi) \div 2
              IN Concat(fragments, lo, mid) \o Concat(fragments, mid, hi)

\* cleanup_old_collectors: with more than 16 collectors, processed ones are
\* erased in key order until 8 are left.
RECURSIVE EraseProcessed(_, _)
EraseProcessed(cs, keys) ==
    IF keys = <<>> \/ Cardinality(DOMAIN cs) <= CLEANUP_DOWN_TO THEN cs
    ELSE IF cs[Head(keys)].processed
         THEN EraseProcessed(Erase(cs, Head(keys)), Tail(keys))
         ELSE EraseProcessed(cs, Tail(keys))

CleanupOldCollectors(cs) ==
    IF Cardinality(DOMAIN cs) > CLEANUP_ABOVE
    THEN EraseProcessed(cs, SortedSeq(DOMAIN cs))
    ELSE cs

NoAF(cs) == [collectors |-> cs, emitted |-> FALSE, af |-> <<>>]

\* PF_Reassembler::add_fragment on the collectors cs: the collectors after
\* the call and the AF packet returned, if one is.
AddFragment(cs, f) ==
    IF f.short THEN NoAF(cs)
    ELSE LET c0 == IF f.pseq \in DOMAIN cs THEN cs[f.pseq] ELSE PF_CollectorNew
             c1 == IF c0.fcount = 0 \/ c0.processed
                   THEN [fcount |-> f.fcount, fragments_collected |-> 0,
                         processed |-> FALSE, fragments |-> EmptyMap]
                   ELSE c0
         IN IF f.findex >= c1.fcount \/ f.findex \in DOMAIN c1.fragments
            THEN NoAF(Put(cs, f.pseq, c1))
            ELSE LET c2 == [c1 EXCEPT !.fragments = Put(@, f.findex, f.payload),
                                      !.fragments_collected = @ + 1]
                 IN IF c2.fragments_collected < c2.fcount
                    THEN NoAF(Put(cs, f.pseq, c2))
                    ELSE LET c3 == [c2 EXCEPT !.processed = TRUE]
                         IN IF \E i \in 0..(c3.fcount - 1) : i \notin DOMAIN c3.fragments
                            THEN NoAF(Put(cs, f.pseq, c3))
                            ELSE [collectors |-> CleanupOldCollectors(Put(cs, f.pseq, c3)),
                                  emitted |-> TRUE,
                                  af |-> Concat(c3.fragments, 0, c3.fcount)]

\* EdiParser::feed on the collectors cs, likewise.
Feed(cs, f) ==
    IF f.fcount = 0 \/ f.fcount > MAX_FCOUNT \/ f.findex >= f.fcount \/ f.short
    THEN NoAF(cs)
    ELSE LET c0 == IF f.pseq \in DOMAIN cs THEN cs[f.pseq] ELSE PfCollectorNew
             c1 == IF c0.pseq # f.pseq \/ c0.fcount # f.fcount
                   THEN [pseq |-> f.pseq, fcount |-> f.fcount, fragments |-> EmptyMap]
                   ELSE c0
             c2 == IF f.findex \notin DOMAIN c1.fragments
                   THEN [c1 EXCEPT !.fragments = Put(@, f.findex, f.payload)]
                   ELSE c1
         IN IF Cardinality(DOMAIN c2.fragments) = c2.fcount
            THEN [collectors |-> Erase(cs, f.pseq),
                  emitted |-> TRUE,
                  af |-> Concat(c2.fragments, 0, c2.fcount)]
            ELSE NoAF(Put(cs, f.pseq, c2))

InitPF ==
    /\ collectors = EmptyMap
    /\ pf_collectors = EmptyMap
    /\ delivered = <<>>
    /\ af_out = <<>>
    /\ edi_af_out = <<>>

\* One datagram handed to both reassemblers
Handle(f) ==
    \E r \in {AddFragment(collectors, f)}, e \in {Feed(pf_collectors, f)} :
        /\ collectors' = r.collectors
        /\ pf_collectors' = e.collectors
        /\ delivered' = Append(delivered, f)
        /\ af_out' = IF r.emitted
                     THEN Append(af_out, [pseq |-> f.pseq, bytes |-> r.af]) ELSE af_out
        /\ edi_af_out' = IF e.emitted
                         THEN Append(edi_af_out, [pseq |-> f.pseq, bytes |-> e.af])
                         ELSE edi_af_out

Deliver ==
    /\ Len(delivered) < MaxDeliver
    /\ \E f \in Fragments : Handle(f)
    /\ UNCHANGED <<varsFIC, varsEM, varsAF, varsTS, varsFeed, varsFIB, varsGSE, varsStrip, varsCand,
                   varsAsm, varsScan, varsDisc,
                   varsUdp, varsStream>>

\* The fragments of the large packet, delivered in index order to fresh
\* reassemblers.
DeliverLarge ==
    /\ Len(delivered) < LargeFcount
    /\ delivered = [i \in 1..Len(delivered) |-> LargeFragment(i - 1)]
    /\ Handle(LargeFragment(Len(delivered)))
    /\ UNCHANGED <<varsFIC, varsEM, varsAF, varsTS, varsFeed, varsFIB, varsGSE, varsStrip, varsCand,
                   varsAsm, varsScan, varsDisc,
                   varsUdp, varsStream>>

\* A run of packets each under a Pseq of its own to fresh reassemblers: three
\* in four are two-fragment packets of which only the first fragment ever
\* arrives, the fourth is a one-fragment packet.
OpenChainLen == NUM_PF_COLLECTORS + NUM_PF_COLLECTORS \div 2
OpenFragment(i) ==
    IF i % 4 = 3 THEN Frag(i, 0, 1, <<1>>, FALSE) ELSE Frag(i, 0, 2, <<1>>, FALSE)

DeliverOpen ==
    /\ Len(delivered) < OpenChainLen
    /\ delivered = [i \in 1..Len(delivered) |-> OpenFragment(i - 1)]
    /\ Handle(OpenFragment(Len(delivered)))
    /\ UNCHANGED <<varsFIC, varsEM, varsAF, varsTS, varsFeed, varsFIB, varsGSE, varsStrip, varsCand,
                   varsAsm, varsScan, varsDisc,
                   varsUdp, varsStream>>

NextPF == Deliver \/ DeliverLarge \/ DeliverOpen

---------------------------------------------------------------------------
(* AF packets: DABStreamParser::handle_af_packet, EdiParser::handleAfPacket *)

CRC_INIT == 65535               \* initial value and final XOR
CRC_POLY == 4129                \* crc16_table[1]
WORD == 65536                   \* uint16_t
FIC_LEN_MODE3 == 128            \* 32 * 4
FIC_LEN_OTHER == 96             \* 24 * 4

MaxAfPackets == 3               \* AF packets handled in one run

\* Bitwise exclusive or of two naturals
RECURSIVE Xor(_, _)
Xor(a, b) ==
    IF a = 0 THEN b
    ELSE IF b = 0 THEN a
    ELSE 2 * Xor(a \div 2, b \div 2) + ((a + b) % 2)

\* crc16_table[i]: eight shift steps of the CCITT polynomial on i << 8
RECURSIVE CrcShift(_, _)
CrcShift(c, k) ==
    IF k = 0 THEN c
    ELSE CrcShift(IF c >= WORD \div 2
                  THEN Xor((2 * c) % WORD, CRC_POLY)
                  ELSE (2 * c) % WORD, k - 1)

Crc16Table(i) == CrcShift(i * 256, 8)

\* The CRC loop: crc = (crc << 8) ^ crc16_table[(crc >> 8) ^ byte]
RECURSIVE CrcLoop(_, _)
CrcLoop(crc, bytes) ==
    IF bytes = <<>> THEN crc
    ELSE CrcLoop(Xor((crc * 256) % WORD, Crc16Table(Xor(crc \div 256, Head(bytes)))),
                 Tail(bytes))

Crc16(bytes) == Xor(CrcLoop(CRC_INIT, bytes), CRC_INIT)

\* TAG items of a TAG packet: *ptr, deti and est<n>
StarPtr(isEti) ==
    [id |-> "*ptr", is_eti |-> isEti, ficf |-> FALSE, mid |-> 0, dflc |-> 0, n |-> 0]

Deti(ficf, mid, dflc) ==
    [id |-> "deti", is_eti |-> FALSE, ficf |-> ficf, mid |-> mid, dflc |-> dflc, n |-> 0,
     fp |-> 0]

Est(n) ==
    [id |-> "est", is_eti |-> FALSE, ficf |-> FALSE, mid |-> 0, dflc |-> 0, n |-> n,
     mst |-> 8]

TagPackets ==
    { <<StarPtr(TRUE), Deti(TRUE, 1, 0), Est(1)>>,
      <<StarPtr(TRUE), Deti(TRUE, 3, 1)>>,
      <<Deti(FALSE, 1, 1)>>,
      <<StarPtr(FALSE)>> }

\* The bytes of a TAG item that the AF CRC covers: a byte naming the tag and
\* one byte for each field of its value
TagBytes(t) ==
    IF t.id = "*ptr" THEN <<42, IF t.is_eti THEN 68 ELSE 0>>
    ELSE IF t.id = "deti" THEN <<100, (IF t.ficf THEN 64 ELSE 0) + t.dflc, t.mid * 64>>
    ELSE <<101, t.n>>

RECURSIVE TagPacketBytes(_)
TagPacketBytes(tags) ==
    IF tags = <<>> THEN <<>> ELSE TagBytes(Head(tags)) \o TagPacketBytes(Tail(tags))

\* The AF header and payload, the bytes [0, total_len - 2) when a CRC follows:
\* the sync characters, the flags byte with HAS_CRC in bit 7, PT, the TAG items
AfBytes(sync, has_crc, pt, tags) ==
    <<(IF sync THEN 65 ELSE 80), 70, (IF has_crc THEN 128 ELSE 0) + 16, pt>>
        \o TagPacketBytes(tags)

PT_TAG == 84                    \* 'T'

AfPacket(sync, has_crc, pt, tags, crc, whole) ==
    [sync |-> sync, has_crc |-> has_crc, pt |-> pt, tags |-> tags, crc |-> crc,
     whole |-> whole]

\* AF packets as they arrive: with and without the CRC flag, the CRC field
\* right, off by one bit or zero, a foreign PT, a lost sync, a cut-off packet
AfPackets ==
    { AfPacket(TRUE, hc, PT_TAG, tags, crc, TRUE) :
        hc \in BOOLEAN, tags \in TagPackets,
        crc \in {0} } \cup
    UNION { { AfPacket(TRUE, TRUE, PT_TAG, tags, Crc16(AfBytes(TRUE, TRUE, PT_TAG, tags)), TRUE),
              AfPacket(TRUE, TRUE, PT_TAG, tags,
                       Xor(Crc16(AfBytes(TRUE, TRUE, PT_TAG, tags)), 1), TRUE) } :
            tags \in TagPackets } \cup
    { AfPacket(TRUE, FALSE, 0, <<StarPtr(TRUE), Deti(TRUE, 1, 0), Est(1)>>, 0, TRUE),
      AfPacket(FALSE, FALSE, PT_TAG, <<StarPtr(TRUE), Deti(TRUE, 1, 0), Est(1)>>, 0, TRUE),
      AfPacket(TRUE, FALSE, PT_TAG, <<StarPtr(TRUE), Deti(TRUE, 1, 0), Est(1)>>, 0, FALSE) }

\* The streams of the 64 whose est TAG items are modelled; mst holds the
\* number of MST bytes of each
StcIds == {1, 2}

\* EDI_Builder and EtiBuilder after construction
EDI_BuilderNew ==
    [is_eti |-> FALSE, m_fc_valid |-> FALSE, fic_length |-> 0,
     ficf |-> FALSE, mid |-> 0, dflc |-> 0, nst |-> 0, est |-> {},
     fp |-> 0, mst |-> [n \in StcIds |-> 0]]

\* decode_starptr, decode_deti, decode_estn on a well-formed TAG item
DecodeTag(b, t) ==
    IF t.id = "*ptr" THEN [b EXCEPT !.is_eti = t.is_eti]
    ELSE IF t.id = "deti" THEN
        [b EXCEPT !.ficf = t.ficf, !.mid = t.mid, !.dflc = t.dflc, !.fp = t.fp,
                  !.fic_length = IF t.ficf
                                 THEN (IF t.mid = 3 THEN FIC_LEN_MODE3 ELSE FIC_LEN_OTHER)
                                 ELSE @,
                  !.m_fc_valid = TRUE]
    ELSE [b EXCEPT !.est = @ \cup {t.n}, !.nst = @ + 1, !.mst[t.n] = t.mst]

RECURSIVE DecodeTags(_, _)
DecodeTags(b, tags) ==
    IF tags = <<>> THEN b ELSE DecodeTags(DecodeTag(b, Head(tags)), Tail(tags))

\* decode_tagpacket: the stream count restarts, then every TAG item is decoded
DecodeTagPacket(b, tags) == DecodeTags([b EXCEPT !.nst = 0], tags)

\* The conditions under which assemble_eti_frame builds and emits a frame
Assembles(b) ==
    /\ b.is_eti
    /\ b.m_fc_valid
    /\ b.fic_length # 0
    /\ b.fic_length = (IF b.mid = 3 THEN FIC_LEN_MODE3 ELSE FIC_LEN_OTHER)

\* DABStreamParser::handle_af_packet: -1 when the packet is refused, 1 once
\* its TAG items are decoded
AfAccepted(pkt) ==
    /\ pkt.sync
    /\ pkt.pt = PT_TAG
    /\ pkt.whole
    /\ pkt.has_crc => pkt.crc = Crc16(AfBytes(pkt.sync, pkt.has_crc, pkt.pt, pkt.tags))

HandleAfPacket(b, pkt) ==
    IF AfAccepted(pkt) THEN DecodeTagPacket(b, pkt.tags) ELSE b

\* EdiParser::handleAfPacket: only the length and the sync characters are
\* looked at; a cut-off packet loses its last TAG item
EdiTags(pkt) == IF pkt.whole THEN pkt.tags ELSE SubSeq(pkt.tags, 1, Len(pkt.tags) - 1)

EdiHandleAfPacket(b, pkt) ==
    IF pkt.sync THEN DecodeTagPacket(b, EdiTags(pkt)) ELSE b

InitAF ==
    /\ edi = EDI_BuilderNew
    /\ eti_count = 0
    /\ eti = EDI_BuilderNew
    /\ edi_frames = 0
    /\ af_in = <<>>
    /\ af_rejected = FALSE

\* handle_edi_packet on an AF packet, and the same packet handed to an EdiParser
HandleEdiPacket ==
    /\ Len(af_in) < MaxAfPackets
    /\ \E pkt \in AfPackets :
        \E ok \in {AfAccepted(pkt)} :
        \E b \in {HandleAfPacket(edi, pkt)} :
        \E e \in {EdiHandleAfPacket(eti, pkt)} :
            /\ edi' = b
            /\ eti_count' = IF ok /\ Assembles(b) THEN eti_count + 1 ELSE eti_count
            /\ eti' = e
            /\ edi_frames' = IF pkt.sync /\ Assembles(e) THEN edi_frames + 1 ELSE edi_frames
            /\ af_in' = Append(af_in, pkt)
            /\ af_rejected' = ~ok
    /\ UNCHANGED <<varsFIC, varsEM, varsPF, varsTS, varsFeed, varsFIB, varsGSE, varsStrip, varsCand,
                   varsAsm, varsScan, varsDisc,
                   varsUdp, varsStream>>

NextAF == HandleEdiPacket

---------------------------------------------------------------------------
(* Claims about AF packets *)

CrcMismatch(pkt) ==
    /\ pkt.sync
    /\ pkt.has_crc
    /\ pkt.crc # Crc16(AfBytes(pkt.sync, pkt.has_crc, pkt.pt, pkt.tags))

\* C12: an AF packet whose flags announce a CRC and whose CRC field differs from
\* the CRC-16 of the packet is discarded: handling it leaves both frame builders
\* as they were and no ETI frame is assembled or emitted.
C12_BadCrcDiscarded ==
    [][(af_in' # af_in /\ CrcMismatch(af_in'[Len(af_in')]))
        => /\ edi' = edi
           /\ eti_count' = eti_count
           /\ eti' = eti
           /\ edi_frames' = edi_frames]_vars

---------------------------------------------------------------------------
(* Claims about PF reassembly (checked under SpecPF)                       *)

\* The well-formed datagrams delivered so far that carry Pseq s
Deliveries(s) == SelectSeq(delivered, LAMBDA f : f.pseq = s /\ ~f.short)

\* The deliveries for Pseq s are the fragments of one PF packet, each index
\* of 0 .. Fcount-1 delivered exactly once, in some order.
PacketDeliveredOnce(s) ==
    LET d == Deliveries(s)
        n == Len(d)
    IN /\ n >= 1
       /\ \A i \in 1..n : d[i].fcount = n
       /\ {d[i].findex : i \in 1..n} = 0..(n - 1)

\* The payloads of the fragments with lo <= Findex < hi, in increasing Findex
RECURSIVE PayloadsBetween(_, _, _)
PayloadsBetween(d, lo, hi) ==
    IF hi <= lo THEN <<>>
    ELSE IF hi = lo + 1
         THEN d[CHOOSE j \in 1..Len(d) : d[j].findex = lo].payload
         ELSE LET mid == (lo + hi) \div 2
              IN PayloadsBetween(d, lo, mid) \o PayloadsBetween(d, mid, hi)

ExpectedAF(s) ==
    [pseq |-> s, bytes |-> PayloadsBetween(Deliveries(s), 0, Len(Deliveries(s)))]

\* The AF packets a reassembler has produced for Pseq s
AFsFor(out, s) == SelectSeq(out, LAMBDA a : a.pseq = s)

DuplicateDelivered ==
    /\ Len(delivered') = Len(delivered) + 1
    /\ LET f == delivered'[Len(delivered')]
           d == Deliveries(f.pseq)
       IN /\ ~f.short
          /\ f.fcount >= 1
          /\ f.findex < f.fcount
          /\ \A i \in 1..Len(d) : d[i].fcount = f.fcount /\ d[i].findex < f.fcount
          /\ \E i \in 1..Len(d) : d[i] = f

\* C10: a fragment whose (Pseq, Findex) has already been delivered for the
\* same PF packet is ignored wherever it comes in the sequence: no further AF
\* packet is produced and the AF packets assembled so far are unchanged.
C10_DuplicateIgnored ==
    [][ DuplicateDelivered => (af_out' = af_out /\ edi_af_out' = edi_af_out) ]_vars

\* C11: whatever PF fragments arrive, fragments of packets that never complete
\* included, a reassembler never holds more than 64 collectors.
C11_AtMost64Collectors ==
    /\ Cardinality(DOMAIN collectors) <= NUM_PF_COLLECTORS
    /\ Cardinality(DOMAIN pf_collectors) <= NUM_PF_COLLECTORS

---------------------------------------------------------------------------
(* ETI-NA padding strip: etina_strip_padding *)

OFFSET_DETECTION_PACKET_COUNT == 5
MIN_FF_INIT == 255
NoOutput == [offset |-> -1, out_len |-> 0]

EtinaOffsetStateNew ==
    [packet_count |-> 0, min_ff_count |-> MIN_FF_INIT, detected_offset |-> -1]

\* What etina_strip_padding returns for a stripped payload: payload + offset
\* with out_len = len - offset, or nullptr when the offset eats the payload
Stripped(offset, len) ==
    IF offset >= len THEN NoOutput ELSE [offset |-> offset, out_len |-> len - offset]

\* etina_strip_padding taking the count of the payload at hand instead of the
\* minimum
EtinaStripPaddingLastCount(state, ff, len) ==
    IF state.detected_offset >= 0
    THEN [state |-> state, out |-> Stripped(state.detected_offset, len)]
    ELSE LET n == state.packet_count + 1
         IN  IF n >= OFFSET_DETECTION_PACKET_COUNT
             THEN [state |-> [packet_count |-> n, min_ff_count |-> ff, detected_offset |-> ff],
                   out |-> Stripped(ff, len)]
             ELSE [state |-> [packet_count |-> n, min_ff_count |-> ff,
                              detected_offset |-> state.detected_offset],
                   out |-> NoOutput]

\* etina_strip_padding on a payload of len bytes of which the first ff are 0xFF
EtinaStripPadding(state, ff, len) ==
    IF state.detected_offset >= 0
    THEN [state |-> state, out |-> Stripped(state.detected_offset, len)]
    ELSE LET m == Min(ff, state.min_ff_count)
             n == state.packet_count + 1
         IN  IF n >= OFFSET_DETECTION_PACKET_COUNT
             THEN [state |-> [packet_count |-> n, min_ff_count |-> m, detected_offset |-> m],
                   out |-> Stripped(m, len)]
             ELSE [state |-> [packet_count |-> n, min_ff_count |-> m,
                              detected_offset |-> state.detected_offset],
                   out |-> NoOutput]

---------------------------------------------------------------------------
(* TS packets: InputSource::checkContinuity, MpeTsSource, GseTsSource, TsScanner *)

TS_PACKET_SIZE == 188
TS_HEADER_SIZE == 4
CC_RANGE == 16
CC_UNKNOWN == 255
GSE_SYNC_KEEP == 64
ETINA_PACKET_THRESHOLD == 100
TargetPid == 256                \* the PID the sources are set up for
SectionUnits == 2               \* TS payloads an MPE section of the input spans

MaxTsPackets == 102             \* TS packets handled in one run
MaxOddPackets == 2              \* of which not plain in-order payload packets

\* A TS packet: the header fields, the adaptation_field_length byte and the
\* payload, named after the continuity counter it travels under
\* What the ETI-NA pipeline finds in the payload of a packet: ff leading 0xFF
\* bytes; e1, the first position of the E1 buffer at which the sync byte shows
\* four times at the sync interval (-1: nowhere); mf, the first frame of the
\* multiframe buffer at which blocks 0..7 of superblock 0 begin (-1: nowhere)
PayloadContent(ff, e1, mf) == [ff |-> ff, e1 |-> e1, mf |-> mf]
NoPattern == PayloadContent(0, -1, -1)

TsPacket(pusi, adapt_ctrl, adapt_len, cc) ==
    [sync |-> TRUE, tei |-> FALSE, pid |-> TargetPid, pusi |-> pusi,
     adapt_ctrl |-> adapt_ctrl, adapt_len |-> adapt_len, cc |-> cc,
     content |-> NoPattern]

\* adaptation_field_control with the adaptation_field_length that goes with it
AdaptKinds == {<<1, 0>>, <<0, 0>>, <<2, 183>>, <<3, 0>>, <<3, 183>>}

\* Payload start and length as processTsPacket computes them; length 0 when
\* the packet is dropped for want of payload
PayloadStart(pkt) ==
    IF pkt.adapt_ctrl = 3 THEN 5 + pkt.adapt_len ELSE TS_HEADER_SIZE

PayloadLen(pkt) ==
    IF pkt.adapt_ctrl = 2 THEN 0
    ELSE IF PayloadStart(pkt) >= TS_PACKET_SIZE THEN 0
    ELSE TS_PACKET_SIZE - PayloadStart(pkt)

\* InputSource::CcState and InputSource::checkContinuity
CcStateNew == [last_cc |-> 0, initialized |-> FALSE]

Continuous(state, cc) ==
    ~(state.initialized /\ cc # (state.last_cc + 1) % CC_RANGE)

CheckContinuity(state, cc) == [last_cc |-> cc, initialized |-> TRUE]

\* MpeParser: section accumulation, counted in TS payloads
MpeParserNew ==
    [section_buffer |-> <<>>, section_length |-> 0, in_section |-> FALSE, section_count |-> 0]

MpeParserReset(m) ==
    [m EXCEPT !.section_buffer = <<>>, !.section_length = 0, !.in_section = FALSE]

\* MpeParser::feedTsPayload: a PUSI payload opens, at pointer_field 0, an MPE
\* section (table_id 0x3E) of SectionUnits payloads; a continuation adds to the
\* section in progress
MpeFeedTsPayload(m, id, pusi) ==
    IF pusi
    THEN [m EXCEPT !.section_buffer = <<id>>, !.section_length = SectionUnits,
                   !.in_section = TRUE]
    ELSE IF m.in_section
    THEN IF Len(m.section_buffer) + 1 >= m.section_length
         THEN [m EXCEPT !.section_buffer = <<>>, !.in_section = FALSE,
                        !.section_count = @ + 1]
         ELSE [m EXCEPT !.section_buffer = Append(@, id)]
    ELSE m

\* GseParser fed TS payloads in which findSync finds no GSE packet: the buffer
\* keeps the last GSE_SYNC_KEEP bytes, here the payload they come from and
\* their number
GseParserNew == [buffer |-> <<>>, synced |-> FALSE]

GseParserReset(g) == GseParserNew

GseFeedTsPayload(g, id, len) ==
    [g EXCEPT !.buffer = <<id, Min(GSE_SYNC_KEEP,
                                   (IF g.buffer = <<>> THEN 0 ELSE g.buffer[2]) + len)>>]

\* MpeTsSource and GseTsSource after construction
MpeTsSourceNew ==
    [cc_state |-> CcStateNew, discontinuity_count |-> 0, mpe_parser |-> MpeParserNew,
     ts_packet_count |-> 0]

GseTsSourceNew ==
    [cc_state |-> CcStateNew, discontinuity_count |-> 0, gse_parser |-> GseParserNew,
     ts_packet_count |-> 0]

\* MpeTsSource::processTsPacket
MpeProcessTsPacket(s, pkt) ==
    IF ~pkt.sync \/ pkt.pid # TargetPid THEN s
    ELSE LET ok == Continuous(s.cc_state, pkt.cc)
             m == IF ok THEN s.mpe_parser ELSE MpeParserReset(s.mpe_parser)
         IN  [cc_state |-> CheckContinuity(s.cc_state, pkt.cc),
              discontinuity_count |-> IF ok THEN s.discontinuity_count
                                      ELSE s.discontinuity_count + 1,
              mpe_parser |-> IF PayloadLen(pkt) = 0 THEN m
                             ELSE MpeFeedTsPayload(m, pkt.cc, pkt.pusi),
              ts_packet_count |-> s.ts_packet_count + 1]

\* GseTsSource::feedPacket: the 184 bytes after the TS header go to the GSE
\* parser whatever the adaptation_field_control
GseFeedPacket(s, pkt) ==
    IF ~pkt.sync THEN s
    ELSE LET ok == Continuous(s.cc_state, pkt.cc)
             g == IF ok THEN s.gse_parser ELSE GseParserReset(s.gse_parser)
         IN  [cc_state |-> CheckContinuity(s.cc_state, pkt.cc),
              discontinuity_count |-> IF ok THEN s.discontinuity_count
                                      ELSE s.discontinuity_count + 1,
              gse_parser |-> GseFeedTsPayload(g, pkt.cc, TS_PACKET_SIZE - TS_HEADER_SIZE),
              ts_packet_count |-> s.ts_packet_count + 1]

\* EtinaPipelineState: the offset detector and the bytes waiting in e1.buffer
\* for an E1 sync that the payloads of the input never show
\* The ETI-NA pipeline: buffers are kept by their size in bytes
E1_FRAME_SIZE == 32
E1_SYNC_INTERVAL == E1_FRAME_SIZE * 2
FRAMES_IN_BLOCK == 8
BLOCKS_IN_SUPERBLOCK == 8
FRAMES_IN_MULTIFRAME == FRAMES_IN_BLOCK * BLOCKS_IN_SUPERBLOCK * 3
E1_SEARCH_STARTS == 1024
E1_BUFFER_LIMIT == 8192
E1_BUFFER_DROP == 4096
ETINA_ABANDON_SIZE == 16384
\* The ETI-NI sync words 0xb63a07ff and 0x49c5f8ff, most significant byte first
FSYNC0 == <<182, 58, 7, 255>>
FSYNC1 == <<73, 197, 248, 255>>

EtinaE1StateNew == [buffer |-> 0, sync_found |-> FALSE]
EtinaMultiframeStateNew == [frame_buffer |-> 0, multiframe_synced |-> FALSE]
EtinaDeintStateNew == [even_frame |-> TRUE]

EtinaPipelineNew ==
    [offset |-> EtinaOffsetStateNew, e1 |-> EtinaE1StateNew,
     multiframe |-> EtinaMultiframeStateNew, deint |-> EtinaDeintStateNew]

\* etina_extract_e1_frame on len new bytes; start is where the buffer shows
\* the sync pattern. frame: an aligned E1 frame is returned
EtinaExtractE1Frame(state, len, start) ==
    LET b == state.buffer + len
        bytes_needed == E1_SYNC_INTERVAL * 4 + 1
        found == start >= 0 /\ start < E1_SEARCH_STARTS /\ start + bytes_needed < b
        synced == IF state.sync_found THEN [state EXCEPT !.buffer = b]
                  ELSE [buffer |-> b - start, sync_found |-> TRUE]
    IN  IF ~state.sync_found /\ b < bytes_needed
        THEN [state |-> [state EXCEPT !.buffer = b], frame |-> FALSE]
        ELSE IF ~state.sync_found /\ ~found
        THEN [state |-> [state EXCEPT !.buffer = IF b > E1_BUFFER_LIMIT
                                                 THEN b - E1_BUFFER_DROP ELSE b],
              frame |-> FALSE]
        ELSE IF synced.buffer < E1_FRAME_SIZE + 1
        THEN [state |-> synced, frame |-> FALSE]
        ELSE [state |-> [synced EXCEPT !.buffer = @ - E1_FRAME_SIZE], frame |-> TRUE]

\* etina_accumulate_multiframe on one E1 frame; frame_offset is where the
\* management bytes show the start of a multiframe. multiframe: a complete
\* multiframe is returned
EtinaAccumulateMultiframe(state, frame_offset) ==
    LET fb == state.frame_buffer + E1_FRAME_SIZE
        frames_needed == FRAMES_IN_MULTIFRAME + FRAMES_IN_BLOCK
        max_search == FRAMES_IN_BLOCK * BLOCKS_IN_SUPERBLOCK
        last_idx == frame_offset + (BLOCKS_IN_SUPERBLOCK - 1) * FRAMES_IN_BLOCK
        found == /\ frame_offset >= 0
                 /\ frame_offset < max_search
                 /\ last_idx * E1_FRAME_SIZE + 1 < fb
        synced == IF state.multiframe_synced THEN [state EXCEPT !.frame_buffer = fb]
                  ELSE [frame_buffer |-> fb - frame_offset * E1_FRAME_SIZE,
                        multiframe_synced |-> TRUE]
    IN  IF fb < frames_needed * E1_FRAME_SIZE
        THEN [state |-> [state EXCEPT !.frame_buffer = fb], multiframe |-> FALSE]
        ELSE IF ~state.multiframe_synced /\ ~found
        THEN [state |-> [state EXCEPT !.frame_buffer =
                            IF fb > FRAMES_IN_BLOCK * E1_FRAME_SIZE * 2
                            THEN fb - FRAMES_IN_BLOCK * E1_FRAME_SIZE ELSE fb],
              multiframe |-> FALSE]
        ELSE [state |-> synced,
              multiframe |-> synced.frame_buffer >= FRAMES_IN_MULTIFRAME * E1_FRAME_SIZE]

\* A 32-bit word, given most significant byte first, as the bytes written
\* when it is stored least significant byte first
LittleEndian(word) == <<word[4], word[3], word[2], word[1]>>

\* etina_deinterleave_to_eti that leaves even_frame as it is
EtinaDeinterleaveSameSync(state) ==
    [state |-> state,
     eti |-> LittleEndian(IF state.even_frame THEN FSYNC0 ELSE FSYNC1)]

\* etina_deinterleave_to_eti: the ETI-NI frame is kept by its first 4 bytes
EtinaDeinterleaveToEti(state) ==
    [state |-> [even_frame |-> ~state.even_frame],
     eti |-> LittleEndian(IF state.even_frame THEN FSYNC0 ELSE FSYNC1)]

\* One turn of the loop of etina_feed_payload, on an E1 frame: the pipeline
\* after it, out with the ETI-NI frame handed to the callback if there is
\* one, and whether the buffer gave one more E1 frame
EtinaFrameStep(p, content, out) ==
    LET m == EtinaAccumulateMultiframe(p.multiframe, content.mf)
        d == EtinaDeinterleaveToEti(p.deint)
        e == EtinaExtractE1Frame(p.e1, 0, content.e1)
    IN  [pipeline |-> [p EXCEPT !.multiframe =
                                  IF m.multiframe
                                  THEN [m.state EXCEPT !.frame_buffer =
                                          @ - FRAMES_IN_MULTIFRAME * E1_FRAME_SIZE]
                                  ELSE m.state,
                                !.deint = IF m.multiframe THEN d.state ELSE @,
                                !.e1 = e.state],
         out |-> IF m.multiframe THEN Append(out, d.eti) ELSE out,
         frame |-> e.frame]

\* The loop of etina_feed_payload over the E1 frames the buffer gives; out
\* collects the ETI-NI frames handed to the callback
RECURSIVE EtinaFrameLoop(_, _, _, _)
EtinaFrameLoop(p, content, out, frame) ==
    IF ~frame THEN [pipeline |-> p, out |-> out]
    ELSE CHOOSE r \in {EtinaFrameLoop(n.pipeline, content, n.out, n.frame) :
                          n \in {EtinaFrameStep(p, content, out)}} : TRUE

\* etina_feed_payload on a payload of len bytes
EtinaFeedPayload(p, len, content) ==
    LET r == EtinaStripPadding(p.offset, content.ff, len)
        p0 == [p EXCEPT !.offset = r.state]
    IN  IF r.out = NoOutput THEN [pipeline |-> p0, out |-> <<>>]
        ELSE LET e == EtinaExtractE1Frame(p0.e1, r.out.out_len, content.e1)
             IN  EtinaFrameLoop([p0 EXCEPT !.e1 = e.state], content, <<>>, e.frame)

\* TsScanner: PidState of the PID and total_packets
NoParser == [absent |-> TRUE]

PidStateNew ==
    [active |-> FALSE, checked |-> FALSE, is_mpe |-> FALSE, last_cc |-> CC_UNKNOWN,
     mpe_parser |-> NoParser, packet_count |-> 0, pusi_count |-> 0,
     etina_candidate |-> FALSE, etina_checked |-> FALSE, etina_pipeline |-> NoParser,
     etina_streaming |-> FALSE]

\* eti_out: the ETI-NI frames the pipeline handed to the callback of
\* processTsPacket during the last packet
TsScannerNew == [pid_state |-> PidStateNew, total_packets |-> 0, eti_out |-> <<>>]

\* The continuity check of TsScanner::Impl::processTsPacket
ScanDiscontinuity(state, pkt) ==
    LET last == IF state.active THEN state.last_cc ELSE pkt.cc
    IN  /\ last # CC_UNKNOWN
        /\ pkt.cc # (last + 1) % CC_RANGE
        /\ pkt.adapt_ctrl # 0
        /\ pkt.adapt_ctrl # 2

\* The part of processTsPacket that handles the payload, up to the ETI-NA
\* detection: MPE detection, the MPE parser, the packet and PUSI counts
ScanDetect(state, pkt) ==
    LET len == PayloadLen(pkt)
        detect == ~state.checked /\ pkt.pusi /\ len > 1
        s1 == IF detect
              THEN [state EXCEPT !.checked = TRUE, !.is_mpe = TRUE,
                                 !.mpe_parser = MpeParserNew]
              ELSE state
        s2 == IF s1.is_mpe /\ s1.mpe_parser # NoParser
              THEN [s1 EXCEPT !.mpe_parser = MpeFeedTsPayload(@, pkt.cc, pkt.pusi)]
              ELSE s1
        s3 == [s2 EXCEPT !.packet_count = @ + 1,
                         !.pusi_count = IF pkt.pusi THEN @ + 1 ELSE @]
    IN  IF ~s3.etina_checked /\ ~s3.is_mpe /\ s3.packet_count >= ETINA_PACKET_THRESHOLD
        THEN [s3 EXCEPT !.etina_checked = TRUE,
                        !.etina_candidate = (s3.pusi_count = 0),
                        !.etina_pipeline = IF s3.pusi_count = 0
                                           THEN EtinaPipelineNew ELSE @]
        ELSE s3

\* The callback of etina_feed_payload in processTsPacket, once the pipeline
\* has been fed, and the check for a detection that failed
ScanEtinaFed(state, f) ==
    LET s5 == [state EXCEPT !.etina_pipeline = f.pipeline,
                            !.etina_streaming = @ \/ f.out # <<>>,
                            !.etina_candidate = @ /\ f.out = <<>>]
    IN  [state |-> IF /\ s5.etina_candidate
                      /\ ~s5.etina_streaming
                      /\ s5.etina_pipeline.e1.buffer > ETINA_ABANDON_SIZE
                   THEN [s5 EXCEPT !.etina_candidate = FALSE,
                                   !.etina_pipeline = NoParser]
                   ELSE s5,
         eti_out |-> f.out]

\* The part of processTsPacket that feeds the ETI-NA pipeline
ScanEtina(state, pkt) ==
    IF (state.etina_candidate \/ state.etina_streaming) /\ state.etina_pipeline # NoParser
    THEN CHOOSE r \in {ScanEtinaFed(state, f) :
                          f \in {EtinaFeedPayload(state.etina_pipeline, PayloadLen(pkt),
                                                   pkt.content)}} : TRUE
    ELSE [state |-> state, eti_out |-> <<>>]

\* The part of processTsPacket that handles the payload
ScanPayload(state, pkt) ==
    CHOOSE r \in {ScanEtina(s4, pkt) : s4 \in {ScanDetect(state, pkt)}} : TRUE

\* TsScanner::Impl::processTsPacket
ScanProcessTsPacket(sc, pkt) ==
    IF ~pkt.sync THEN [sc EXCEPT !.eti_out = <<>>]
    ELSE IF pkt.tei THEN [sc EXCEPT !.total_packets = @ + 1, !.eti_out = <<>>]
    ELSE LET s0 == [sc.pid_state EXCEPT !.active = TRUE]
             s1 == IF ScanDiscontinuity(sc.pid_state, pkt) /\ s0.mpe_parser # NoParser
                   THEN [s0 EXCEPT !.mpe_parser = MpeParserReset(@)]
                   ELSE s0
             s2 == [s1 EXCEPT !.last_cc = pkt.cc]
             r == IF PayloadLen(pkt) = 0 THEN [state |-> s2, eti_out |-> <<>>]
                  ELSE ScanPayload(s2, pkt)
         IN  [pid_state |-> r.state, total_packets |-> sc.total_packets + 1,
              eti_out |-> r.eti_out]

InitTS ==
    /\ mpe_src = MpeTsSourceNew
    /\ gse_src = GseTsSourceNew
    /\ scan = TsScannerNew
    /\ ts_in = <<>>
    /\ ts_odd = 0

\* The continuity counters a packet may carry: the last one again, the next
\* one, the one after
NextCcs ==
    LET last == IF scan.pid_state.active THEN scan.pid_state.last_cc ELSE CC_RANGE - 2
    IN  {(last + d) % CC_RANGE : d \in 0..2}

PlainPacket(pkt) ==
    /\ ~pkt.pusi
    /\ pkt.adapt_ctrl = 1
    /\ scan.pid_state.active => pkt.cc = (scan.pid_state.last_cc + 1) % CC_RANGE

\* One TS packet handed to an MpeTsSource, to a GseTsSource and to a TsScanner
FeedTsPacket ==
    /\ scan.total_packets < MaxTsPackets
    /\ \E pusi \in BOOLEAN, ak \in AdaptKinds, cc \in NextCcs :
        \E pkt \in {TsPacket(pusi, ak[1], ak[2], cc)} :
            /\ PlainPacket(pkt) \/ ts_odd < MaxOddPackets
            /\ mpe_src' = MpeProcessTsPacket(mpe_src, pkt)
            /\ gse_src' = GseFeedPacket(gse_src, pkt)
            /\ scan' = ScanProcessTsPacket(scan, pkt)
            /\ ts_in' = <<pkt>>
            /\ ts_odd' = IF PlainPacket(pkt) THEN ts_odd ELSE ts_odd + 1
    /\ UNCHANGED <<varsFIC, varsEM, varsPF, varsAF, varsFeed, varsFIB, varsGSE, varsStrip, varsCand,
                   varsAsm, varsScan, varsDisc,
                   varsUdp, varsStream>>

NextTS == FeedTsPacket

---------------------------------------------------------------------------
(* Claims about TS packets *)

PacketHandled == scan'.total_packets # scan.total_packets

CarriesPayload(pkt) ==
    /\ pkt.adapt_ctrl \in {1, 3}
    /\ PayloadLen(pkt) > 0

\* C13: when a payload-carrying TS packet that is not the first on its PID
\* arrives with a continuity counter other than (last_cc + 1) mod 16, the
\* discontinuity counter goes up by one and the parser that owns the PID (the
\* MPE parser, the GSE parser, the ETI-NA pipeline) is reset before the payload
\* of the packet is processed.
C13_DiscontinuityResetsParser ==
    [][(PacketHandled /\ CarriesPayload(ts_in'[1])) =>
        LET pkt == ts_in'[1]
        IN  /\ (mpe_src.cc_state.initialized
                    /\ pkt.cc # (mpe_src.cc_state.last_cc + 1) % CC_RANGE)
                => /\ mpe_src'.discontinuity_count = mpe_src.discontinuity_count + 1
                   /\ mpe_src'.mpe_parser =
                        MpeFeedTsPayload(MpeParserReset(mpe_src.mpe_parser), pkt.cc, pkt.pusi)
            /\ (gse_src.cc_state.initialized
                    /\ pkt.cc # (gse_src.cc_state.last_cc + 1) % CC_RANGE)
                => /\ gse_src'.discontinuity_count = gse_src.discontinuity_count + 1
                   /\ gse_src'.gse_parser =
                        GseFeedTsPayload(GseParserReset(gse_src.gse_parser), pkt.cc,
                                         TS_PACKET_SIZE - TS_HEADER_SIZE)
            /\ (scan.pid_state.active
                    /\ pkt.cc # (scan.pid_state.last_cc + 1) % CC_RANGE)
                => /\ scan.pid_state.mpe_parser # NoParser
                        => scan'.pid_state.mpe_parser =
                             MpeFeedTsPayload(MpeParserReset(scan.pid_state.mpe_parser),
                                              pkt.cc, pkt.pusi)
                   /\ scan.pid_state.etina_pipeline # NoParser
                        => scan'.pid_state.etina_pipeline =
                             EtinaFeedPayload(EtinaPipelineNew, PayloadLen(pkt),
                                              pkt.content).pipeline]_vars

\* C14: a TS packet without payload (adaptation_field_control 0 or 2) is never
\* counted as a discontinuity and never makes the parser that owns its PID
\* reset: the discontinuity counter stays and the parser goes on from the
\* state it had.
C14_NoPayloadNoDiscontinuity ==
    [][(PacketHandled /\ ts_in'[1].adapt_ctrl \in {0, 2}) =>
        LET pkt == ts_in'[1]
        IN  /\ mpe_src'.discontinuity_count = mpe_src.discontinuity_count
            /\ mpe_src'.mpe_parser =
                 (IF PayloadLen(pkt) = 0 THEN mpe_src.mpe_parser
                  ELSE MpeFeedTsPayload(mpe_src.mpe_parser, pkt.cc, pkt.pusi))
            /\ gse_src'.discontinuity_count = gse_src.discontinuity_count
            /\ gse_src'.gse_parser \in
                 {gse_src.gse_parser,
                  GseFeedTsPayload(gse_src.gse_parser, pkt.cc, TS_PACKET_SIZE - TS_HEADER_SIZE)}
            /\ scan.pid_state.mpe_parser # NoParser
                => scan'.pid_state.mpe_parser \in
                     {scan.pid_state.mpe_parser,
                      MpeFeedTsPayload(scan.pid_state.mpe_parser, pkt.cc, pkt.pusi)}]_vars

\* C15: a TS packet whose adaptation_field_length leaves no payload bytes is
\* dropped: the section accumulator of the MPE parsers, the buffer of the GSE
\* parser and the ETI-NA pipeline are after the packet what they were before.
C15_NoPayloadLeftNoChange ==
    [][(PacketHandled /\ ts_in'[1].adapt_ctrl = 3
            /\ 5 + ts_in'[1].adapt_len >= TS_PACKET_SIZE) =>
        /\ mpe_src'.mpe_parser = mpe_src.mpe_parser
        /\ gse_src'.gse_parser = gse_src.gse_parser
        /\ scan'.pid_state.mpe_parser = scan.pid_state.mpe_parser
        /\ scan'.pid_state.etina_pipeline = scan.pid_state.etina_pipeline]_vars

\* The payloads of the PID go to the MPE parser; to the ETI-NA pipeline
FedToMpe(state) == state.is_mpe /\ state.mpe_parser # NoParser
FedToEtina(state) ==
    (state.etina_candidate \/ state.etina_streaming) /\ state.etina_pipeline # NoParser

\* C37: a PID is never classified as both MPE and ETI-NA: its payloads are fed
\* to at most one of the MPE section accumulator and the ETI-NA pipeline.
C37_MpeOrEtinaNotBoth ==
    ~(FedToMpe(scan.pid_state) /\ FedToEtina(scan.pid_state))

---------------------------------------------------------------------------
(* feed(): TS packet framing across calls in MpeTsSource, GseTsSource, TsScanner *)

StreamPackets == 2              \* TS packets in the byte sequence fed
MaxChunks == 5                  \* feed() calls in one run
StreamLen == StreamPackets * TS_PACKET_SIZE

\* The byte sequence fed: well-formed, packet after packet, each byte known by
\* its place in the sequence
Bytes(from, to) == [i \in 1..(to - from + 1) |-> from + i - 1]

\* The packets a single feed() call of the whole sequence hands to
\* processTsPacket, in order
WholePackets ==
    [k \in 1..StreamPackets |-> Bytes((k - 1) * TS_PACKET_SIZE + 1, k * TS_PACKET_SIZE)]

\* The while loop of feed(): complete packets of data from pos on
RECURSIVE CompletePackets(_, _)
CompletePackets(data, pos) ==
    IF pos + TS_PACKET_SIZE <= Len(data)
    THEN <<SubSeq(data, pos + 1, pos + TS_PACKET_SIZE)>>
            \o CompletePackets(data, pos + TS_PACKET_SIZE)
    ELSE <<>>

Remainder(data, pos) ==
    LET done == pos + ((Len(data) - pos) \div TS_PACKET_SIZE) * TS_PACKET_SIZE
    IN  IF done < Len(data) THEN SubSeq(data, done + 1, Len(data)) ELSE <<>>

\* As FeedCall, but the bytes left after the last complete packet are not kept
FeedCallDropRemainder(partial, data) ==
    IF partial # <<>> /\ Len(data) < TS_PACKET_SIZE - Len(partial)
    THEN [packets |-> <<>>, partial |-> partial \o data, early |-> TRUE]
    ELSE LET pos == IF partial = <<>> THEN 0 ELSE TS_PACKET_SIZE - Len(partial)
         IN  [packets |-> (IF partial = <<>> THEN <<>>
                           ELSE <<partial \o SubSeq(data, 1, pos)>>)
                              \o CompletePackets(data, pos),
              partial |-> <<>>, early |-> FALSE]

\* MpeTsSource::feed, GseTsSource::feed and the framing part of
\* TsScanner::Impl::feed: the packets handed to processTsPacket, the partial
\* packet kept for the next call, and whether the call returned early, still
\* short of a packet
FeedCall(partial, data) ==
    IF partial # <<>> /\ Len(data) < TS_PACKET_SIZE - Len(partial)
    THEN [packets |-> <<>>, partial |-> partial \o data, early |-> TRUE]
    ELSE LET pos == IF partial = <<>> THEN 0 ELSE TS_PACKET_SIZE - Len(partial)
         IN  [packets |-> (IF partial = <<>> THEN <<>>
                           ELSE <<partial \o SubSeq(data, 1, pos)>>)
                              \o CompletePackets(data, pos),
              partial |-> Remainder(data, pos), early |-> FALSE]

\* Chunk lengths a caller may pick
ChunkLens ==
    {1, 2, 93, 94, TS_PACKET_SIZE - 2, TS_PACKET_SIZE - 1, TS_PACKET_SIZE,
     TS_PACKET_SIZE + 1, TS_PACKET_SIZE + 2, 2 * TS_PACKET_SIZE - 1,
     2 * TS_PACKET_SIZE, 2 * TS_PACKET_SIZE + 1, 3 * TS_PACKET_SIZE}

InitFeed ==
    /\ fed = 0
    /\ src_partial = <<>>
    /\ src_packets = <<>>
    /\ scan_partial = <<>>
    /\ scan_packets = <<>>
    /\ scan_done = FALSE
    /\ scan_taken = 0
    /\ chunks = 0
    /\ mid_split = FALSE

\* One feed() call with the next chunk of the sequence, to a source and to a
\* TsScanner. The scanner returns at once when done; otherwise the call may
\* end with done set (the timeout has passed, every ensemble is complete, or
\* nothing was found within the early-exit time).
FeedChunk ==
    /\ fed < StreamLen
    /\ chunks < MaxChunks
    /\ \E len \in ChunkLens, timeout \in BOOLEAN :
        /\ fed + len <= StreamLen
        /\ \E data \in {Bytes(fed + 1, fed + len)} :
           \E r \in {FeedCall(src_partial, data)} :
           \E q \in {FeedCall(scan_partial, data)} :
            /\ src_partial' = r.partial
            /\ src_packets' = src_packets \o r.packets
            /\ IF scan_done
               THEN /\ ~timeout
                    /\ UNCHANGED <<scan_partial, scan_packets, scan_done, scan_taken>>
               ELSE /\ q.early => ~timeout
                    /\ scan_partial' = q.partial
                    /\ scan_packets' = scan_packets \o q.packets
                    /\ scan_done' = timeout
                    /\ scan_taken' = scan_taken + len
            /\ fed' = fed + len
            /\ chunks' = chunks + 1
            /\ mid_split' = (mid_split \/ (fed + len) % TS_PACKET_SIZE # 0)
    /\ UNCHANGED <<varsFIC, varsEM, varsPF, varsAF, varsTS, varsFIB, varsGSE, varsStrip, varsCand,
                   varsAsm, varsScan, varsDisc,
                   varsUdp, varsStream>>

NextFeed == FeedChunk

---------------------------------------------------------------------------
(* Claims about feed() *)

\* C16: however a well-formed TS byte sequence is split into consecutive
\* chunks, feeding the chunks in order processes the same sequence of TS
\* packets as one feed() call with the whole sequence.
C16_ChunkedEqualsWhole ==
    fed = StreamLen =>
        /\ src_packets = WholePackets
        /\ scan_packets = WholePackets

\* C16, as the code has it: the sources process, chunk by chunk, exactly the
\* complete packets of the bytes fed so far, hence the whole sequence once it
\* is fed; a TsScanner does so for the bytes fed up to the call that
\* returned done, and ignores every chunk after it.
C16_ChunkedEqualsWholeUntilDone ==
    /\ src_packets = SubSeq(WholePackets, 1, fed \div TS_PACKET_SIZE)
    /\ src_partial = Bytes((fed \div TS_PACKET_SIZE) * TS_PACKET_SIZE + 1, fed)
    /\ scan_packets = SubSeq(WholePackets, 1, scan_taken \div TS_PACKET_SIZE)
    /\ scan_partial = Bytes((scan_taken \div TS_PACKET_SIZE) * TS_PACKET_SIZE + 1, scan_taken)
    /\ ~scan_done => scan_taken = fed

C16_Witness ==
    /\ fed = StreamLen
    /\ chunks >= 3
    /\ mid_split
    /\ scan_taken = fed
    /\ src_packets = WholePackets
    /\ scan_packets = WholePackets

---------------------------------------------------------------------------
(* FIBs: DABParser::process_fib *)

FIB_DATA_LEN == 30
MaxFibs == 2                    \* FIBs handled in one run

\* What lies at a FIG header position of a FIB: the end marker 0xFF, or a
\* header declaring len bytes followed by the FIG it announces
FigEnd == [end |-> TRUE, len |-> 0, op |-> Fig("", 0, Absent, "")]
FigItem(len, op) == [end |-> FALSE, len |-> len, op |-> op]

FibItems ==
    {FigItem(22, Fig("0/1", 0, 0, "")), FigItem(6, Fig("0/2", 1, 0, "")),
     FigItem(22, Fig("1/0", 0, Absent, "A")), FigItem(0, Fig("0/1", 0, 1, "")), FigEnd}

\* A FIB: whether its CRC matches, and its FIG headers in the order they are
\* laid out (none, one, two or three); the bytes after the last of them are
\* 0xFF padding
Fibs ==
    {[crc_ok |-> TRUE, figs |-> s] :
        s \in {<<>>} \cup {<<a>> : a \in FibItems}
               \cup {<<a, b>> : a \in FibItems, b \in FibItems}
               \cup {<<a, b, c>> : a \in FibItems, b \in FibItems, c \in FibItems}}
    \cup {[crc_ok |-> FALSE, figs |-> <<FigItem(6, Fig("0/2", 1, 0, ""))>>]}

\* As FibLoop, without the check of the declared length against the FIB
RECURSIVE FibLoopUnchecked(_, _, _)
FibLoopUnchecked(p, figs, pos) ==
    IF figs = <<>> \/ pos >= FIB_DATA_LEN THEN p
    ELSE IF Head(figs).end THEN p
    ELSE FibLoopUnchecked(IF Head(figs).len < 1 THEN p ELSE ProcessFig(p, Head(figs).op),
                          Tail(figs), pos + 1 + Head(figs).len)

\* The FIG loop of process_fib from byte pos on
RECURSIVE FibLoop(_, _, _)
FibLoop(p, figs, pos) ==
    IF figs = <<>> \/ pos >= FIB_DATA_LEN THEN p
    ELSE IF Head(figs).end THEN p
    ELSE IF pos + 1 + Head(figs).len > FIB_DATA_LEN THEN p
    ELSE FibLoop(IF Head(figs).len < 1 THEN p ELSE ProcessFig(p, Head(figs).op),
                 Tail(figs), pos + 1 + Head(figs).len)

\* DABParser::process_fib
ProcessFib(p, fib) == IF fib.crc_ok THEN FibLoop(p, fib.figs, 0) ELSE p

InitFIB ==
    /\ fib_parser = DABParserNew
    /\ fib_count = 0
    /\ fib_in = <<>>

HandleFib ==
    /\ fib_count < MaxFibs
    /\ \E fib \in Fibs :
        /\ fib_parser' = ProcessFib(fib_parser, fib)
        /\ fib_count' = fib_count + 1
        /\ fib_in' = <<fib>>
    /\ UNCHANGED <<varsFIC, varsEM, varsPF, varsAF, varsTS, varsFeed, varsGSE, varsStrip, varsCand,
                   varsAsm, varsScan, varsDisc,
                   varsUdp, varsStream>>

NextFIB == HandleFib

---------------------------------------------------------------------------
(* Claims about FIBs *)

\* Byte position of the i-th FIG header of a FIB
RECURSIVE FigPos(_, _)
FigPos(figs, i) == IF i = 1 THEN 0 ELSE FigPos(figs, i - 1) + 1 + figs[i - 1].len

\* The i-th FIG header is reached and declares more bytes than the FIB has left
Overflows(figs, i) ==
    /\ \A j \in 1..(i - 1) : ~figs[j].end /\ FigPos(figs, j) + 1 + figs[j].len <= FIB_DATA_LEN
    /\ FigPos(figs, i) < FIB_DATA_LEN
    /\ ~figs[i].end
    /\ FigPos(figs, i) + 1 + figs[i].len > FIB_DATA_LEN

\* The FIGs of the headers before the i-th, those of no length left out
FigsBefore(figs, i) ==
    LET keep == {j \in 1..(i - 1) : figs[j].len >= 1}
    IN  [k \in 1..Cardinality(keep) |->
            figs[CHOOSE j \in keep : Cardinality({x \in keep : x <= j}) = k].op]

\* C17: when a FIG of a FIB declares a length that runs past the end of the
\* FIB, the FIGs before it are processed and nothing more: the sub-channels,
\* services and labels are what they were before the malformed FIG.
C17_OverlongFigStopsFib ==
    [][\A i \in 1..Len(fib_in'[1].figs) :
        (fib_count' # fib_count /\ fib_in'[1].crc_ok /\ Overflows(fib_in'[1].figs, i))
        => fib_parser' = ProcessFic(fib_parser, FigsBefore(fib_in'[1].figs, i))]_vars

\* A FIB whose second FIG is overlong: the sub-channel of the first FIG is
\* there, the ensemble label of the second is not
C17_Witness ==
    /\ fib_in # <<>>
    /\ fib_in[1].crc_ok
    /\ Len(fib_in[1].figs) >= 2
    /\ Overflows(fib_in[1].figs, 2)
    /\ fib_in[1].figs[1].op = Fig("0/1", 0, 0, "")
    /\ fib_in[1].figs[2].op = Fig("1/0", 0, Absent, "A")
    /\ 0 \in fib_parser.subchannels
    /\ fib_parser.ensemble_label = ""

---------------------------------------------------------------------------
(* GSE fragments: GseParser::processGsePacket *)

PROTO_IPV4 == 2048
\* The protocol types of the packets handled: IPv4 and IPv6
GseProtocols == {PROTO_IPV4, 34525}
GSE_MIN_TOTAL == 28
GSE_MAX_TOTAL == 2000
IPV4_MIN_HEADER == 20
FragIds == {0, 1}

MaxGsePackets == 4              \* GSE packets handled in one run

\* A GSE packet: S and E, the label type, the GSE length, and what its
\* fields hold. The payload of a first fragment or of a complete packet
\* begins with the protocol type, followed (label type broadcast: no label)
\* by an IPv4 header.
GsePacket(start, stop, lt, gse_len, frag_id, total_len, protocol) ==
    [start |-> start, stop |-> stop, lt |-> lt, gse_len |-> gse_len,
     frag_id |-> frag_id, total_len |-> total_len, protocol |-> protocol,
     ip_total_len |-> IF ~start THEN 0 ELSE IF stop THEN gse_len - 2 ELSE total_len - 2]

\* The fragments of a PDU of 100 bytes sent as 40 + 30 + 30, a middle
\* fragment of 70 bytes, a last fragment of 10 bytes, complete packets, a
\* packet with S = E = 0 and label type 0 (padding)
GsePackets ==
    {GsePacket(TRUE, FALSE, 2, 43, f, 100, proto) : f \in FragIds, proto \in GseProtocols}
    \cup {GsePacket(FALSE, FALSE, 3, n + 1, f, 0, 0) : f \in FragIds, n \in {30, 70}}
    \cup {GsePacket(FALSE, TRUE, 3, n + 5, f, 0, 0) : f \in FragIds, n \in {30, 10}}
    \cup {GsePacket(TRUE, TRUE, 2, 42, 0, 0, proto) : proto \in GseProtocols}
    \cup {GsePacket(FALSE, FALSE, 0, 10, 0, 0, 0)}

\* GseFragment after construction; data holds the protocol type of the first
\* fragment and the number of bytes each fragment copied in
GseFragmentNew ==
    [data_size |-> 0, protocol |-> 0, ip_total_len |-> 0, pieces |-> <<>>,
     total_length |-> 0,
     current_pos |-> 0, active |-> FALSE]

GseParserFragsNew ==
    [fragments |-> [f \in FragIds |-> GseFragmentNew], packet_count |-> 0,
     fragment_count |-> 0]

\* handleCompleteGsePayload and emitIpv4Packet on a payload of len bytes that
\* begins with the protocol type and an IPv4 header whose total length is
\* ip_total_len: the IPv4 packets emitted, each with its length
CompleteGsePayload(protocol, ip_total_len, len, id) ==
    IF len < 4 \/ protocol # PROTO_IPV4 THEN <<>>
    ELSE IF 2 + IPV4_MIN_HEADER > len THEN <<>>
    ELSE <<[frag_id |-> id, len |-> Min(ip_total_len, len - 2)]>>

\* The label length of a label type
LabelLen(lt) == IF lt = 0 THEN 6 ELSE IF lt = 1 THEN 3 ELSE 0

\* The first-fragment branch of processGsePacket returns before it touches
\* the slot
FirstSkipped(pkt) ==
    \/ pkt.gse_len < 7
    \/ 5 + LabelLen(pkt.lt) + 2 > pkt.gse_len + 2
    \/ pkt.protocol # PROTO_IPV4
    \/ pkt.total_len > GSE_MAX_TOTAL
    \/ pkt.total_len < GSE_MIN_TOTAL

\* The slot after a first fragment that was not skipped
FirstFragment(frag, pkt) ==
    LET payload_len == pkt.gse_len - 3
        fits == 2 + payload_len <= pkt.total_len + 2
    IN  [data_size |-> pkt.total_len + 2,
         protocol |-> IF fits THEN pkt.protocol ELSE frag.protocol,
         ip_total_len |-> IF fits THEN pkt.ip_total_len ELSE frag.ip_total_len,
         pieces |-> IF fits THEN <<payload_len>> ELSE <<>>,
         total_length |-> pkt.total_len + 2,
         current_pos |-> IF fits THEN 2 + payload_len ELSE 0,
         active |-> fits]

\* The copy of a middle or last fragment's payload into the slot
AppendFragment(frag, payload_len) ==
    IF frag.current_pos + payload_len <= frag.data_size
    THEN [frag EXCEPT !.pieces = Append(@, payload_len),
                      !.current_pos = @ + payload_len]
    ELSE frag

\* GseParser::processGsePacket: the parser after the packet and the IPv4
\* packets handed to the callback
ProcessGsePacket(g, pkt) ==
    LET frag == g.fragments[pkt.frag_id]
    IN  IF ~pkt.start /\ ~pkt.stop /\ pkt.lt = 0
        THEN [parser |-> g, out |-> <<>>]
        ELSE IF pkt.start /\ pkt.stop
        THEN [parser |-> [g EXCEPT !.packet_count = @ + 1],
              out |-> CompleteGsePayload(pkt.protocol, pkt.ip_total_len, pkt.gse_len,
                                         pkt.frag_id)]
        ELSE IF pkt.start
        THEN IF FirstSkipped(pkt)
             THEN [parser |-> g, out |-> <<>>]
             ELSE [parser |-> [g EXCEPT !.fragments[pkt.frag_id] = FirstFragment(frag, pkt),
                                        !.fragment_count = @ + 1],
                   out |-> <<>>]
        ELSE IF ~pkt.stop
        THEN IF pkt.gse_len < 1 \/ ~frag.active
             THEN [parser |-> g, out |-> <<>>]
             ELSE [parser |-> [g EXCEPT !.fragments[pkt.frag_id] =
                                            AppendFragment(frag, pkt.gse_len - 1),
                                        !.fragment_count = @ + 1],
                   out |-> <<>>]
        ELSE IF pkt.gse_len < 5 \/ ~frag.active
             THEN [parser |-> g, out |-> <<>>]
             ELSE LET done == AppendFragment(frag, pkt.gse_len - 5)
                  IN  [parser |-> [g EXCEPT !.fragments[pkt.frag_id] =
                                                [done EXCEPT !.active = FALSE],
                                            !.packet_count = @ + 1,
                                            !.fragment_count = @ + 1],
                       out |-> CompleteGsePayload(done.protocol, done.ip_total_len,
                                                  done.current_pos - 2, pkt.frag_id)]

InitGSE ==
    /\ gse = GseParserFragsNew
    /\ gse_out = <<>>
    /\ gse_in = <<>>
    /\ gse_first = [f \in FragIds |-> 0]
    /\ gse_n = 0

\* One GSE packet handed to processGsePacket
HandleGsePacket ==
    /\ gse_n < MaxGsePackets
    /\ \E pkt \in GsePackets :
        \E r \in {ProcessGsePacket(gse, pkt)} :
            /\ gse' = r.parser
            /\ gse_out' = gse_out \o r.out
            /\ gse_in' = <<pkt>>
            /\ gse_first' = IF pkt.start /\ ~pkt.stop
                            THEN [gse_first EXCEPT ![pkt.frag_id] = pkt.protocol]
                            ELSE gse_first
            /\ gse_n' = gse_n + 1
    /\ UNCHANGED <<varsFIC, varsEM, varsPF, varsAF, varsTS, varsFeed, varsFIB, varsStrip, varsCand,
                   varsAsm, varsScan, varsDisc,
                   varsUdp, varsStream>>

NextGSE == HandleGsePacket

---------------------------------------------------------------------------
(* Claims about GSE fragments *)

\* C18: whatever the parser held before, the middle and last fragments of a
\* PDU whose first fragment (S=1, E=0) declared a protocol other than 0x0800
\* emit no IP packet for its fragment-ID.
C18_NonIpv4PduNoOutput ==
    [][(gse_n' # gse_n /\ ~gse_in'[1].start /\ gse_in'[1].lt # 0
            /\ gse_first[gse_in'[1].frag_id] \notin {0, PROTO_IPV4})
        => gse_out' = gse_out]_vars

\* C19: on an active slot a middle or last fragment whose bytes fit is
\* appended; a fragment that would run past total_length, or a last fragment
\* that leaves current_pos short of total_length, discards the slot, and no
\* IP packet is emitted for the PDU.
C19_MismatchDiscards ==
    [][(gse_n' # gse_n /\ ~gse_in'[1].start /\ gse_in'[1].lt # 0
            /\ gse.fragments[gse_in'[1].frag_id].active) =>
        LET pkt == gse_in'[1]
            frag == gse.fragments[pkt.frag_id]
            n == IF pkt.stop THEN pkt.gse_len - 5 ELSE pkt.gse_len - 1
            mismatch == \/ frag.current_pos + n > frag.total_length
                        \/ pkt.stop /\ frag.current_pos + n < frag.total_length
        IN  IF mismatch
            THEN /\ gse_out' = gse_out
                 /\ ~gse'.fragments[pkt.frag_id].active
            ELSE gse'.fragments[pkt.frag_id].current_pos = frag.current_pos + n]_vars

---------------------------------------------------------------------------
(* ETI-NA padding strip on a run of payloads *)

MaxPayloads == 7                \* payloads handed to etina_strip_padding in one run

\* TS payloads: len bytes of which exactly the first ff are 0xFF
StripPayloads ==
    {p \in [ff : {0, 8, 12, 100}, len : {8, 100, 184}] : p.ff <= p.len}

InitStrip ==
    /\ strip = EtinaOffsetStateNew
    /\ strip_out = NoOutput
    /\ strip_in = <<>>
    /\ strip_seen = <<>>
    /\ strip_n = 0

\* One payload handed to etina_strip_padding
StripPayload ==
    /\ strip_n < MaxPayloads
    /\ \E p \in StripPayloads :
        \E r \in {EtinaStripPadding(strip, p.ff, p.len)} :
            /\ strip' = r.state
            /\ strip_out' = r.out
            /\ strip_in' = <<p>>
            /\ strip_seen' = IF Len(strip_seen) < OFFSET_DETECTION_PACKET_COUNT
                             THEN Append(strip_seen, p.ff) ELSE strip_seen
            /\ strip_n' = strip_n + 1
    /\ UNCHANGED <<varsFIC, varsEM, varsPF, varsAF, varsTS, varsFeed, varsFIB, varsGSE, varsCand,
                   varsAsm, varsScan, varsDisc,
                   varsUdp, varsStream>>

NextStrip == StripPayload

---------------------------------------------------------------------------
(* Claims about the ETI-NA padding strip *)

\* The smallest element of a non-empty sequence of numbers
MinOf(seq) == CHOOSE m \in {seq[i] : i \in 1..Len(seq)} : \A i \in 1..Len(seq) : m <= seq[i]

\* detected_offset is the minimum over the first 5 payloads once they have
\* been observed, and does not change once set
OffsetDetectedOnce ==
    /\ Len(strip_seen') < OFFSET_DETECTION_PACKET_COUNT => strip'.detected_offset = -1
    /\ Len(strip_seen') = OFFSET_DETECTION_PACKET_COUNT
        => strip'.detected_offset = MinOf(strip_seen')
    /\ strip.detected_offset >= 0 => strip'.detected_offset = strip.detected_offset

\* C20 (as stated): once the first 5 payloads have been observed,
\* detected_offset is the minimum number of leading 0xFF bytes among them and
\* never changes, and every later payload is output with exactly
\* detected_offset bytes removed from its head.
C20_EveryPayloadStripped ==
    [][strip_n' # strip_n =>
        /\ OffsetDetectedOnce
        /\ strip.detected_offset >= 0 =>
            strip_out' = [offset |-> strip.detected_offset,
                          out_len |-> strip_in'[1].len - strip.detected_offset]]_vars

\* C20 (amended): once the first 5 payloads have been observed,
\* detected_offset is the minimum number of leading 0xFF bytes among them and
\* never changes; every later payload longer than detected_offset is output
\* with exactly detected_offset bytes removed from its head, and a payload of
\* at most detected_offset bytes gives no output.
C20_LongerPayloadStripped ==
    [][strip_n' # strip_n =>
        /\ OffsetDetectedOnce
        /\ strip.detected_offset >= 0 =>
            strip_out' = IF strip_in'[1].len > strip.detected_offset
                         THEN [offset |-> strip.detected_offset,
                               out_len |-> strip_in'[1].len - strip.detected_offset]
                         ELSE NoOutput]_vars

\* A payload after the detection came out 8 bytes shorter, the minimum
\* having been seen neither first nor last among the 5
C20_Witness ==
    /\ Len(strip_seen) = OFFSET_DETECTION_PACKET_COUNT
    /\ strip_n > OFFSET_DETECTION_PACKET_COUNT
    /\ strip.detected_offset = 8
    /\ strip_seen[1] # 8 /\ strip_seen[5] # 8
    /\ strip_out = [offset |-> 8, out_len |-> strip_in[1].len - 8]
    /\ strip_in[1].ff # 8

---------------------------------------------------------------------------
(* A PID without PUSI in a TsScanner: ETI-NA detection and streaming *)

\* processTsPacket compares packet_count only with ETINA_PACKET_THRESHOLD,
\* and only until etina_checked is set, and pusi_count only with 0;
\* total_packets is only compared with 0. The counters are kept up to where
\* they are told apart.
Saturated(sc) ==
    [sc EXCEPT !.total_packets = Min(@, ETINA_PACKET_THRESHOLD),
               !.pid_state.packet_count = Min(@, ETINA_PACKET_THRESHOLD),
               !.pid_state.pusi_count = Min(@, 1)]

\* What the payloads of the PID may hold
EtinaContents ==
    {PayloadContent(ff, e1, mf) : ff \in {0, 12}, e1 \in {-1, 0, 5}, mf \in {-1, 0, 3}}

\* A stream that carries E1 frames shows the sync pattern from the start: the
\* pattern is found before the E1 buffer holds this many bytes, or never
MaxSyncSearch == 1024

E1Buffered ==
    IF cand.pid_state.etina_pipeline = NoParser THEN 0
    ELSE cand.pid_state.etina_pipeline.e1.buffer

InitCand ==
    /\ cand = TsScannerNew
    /\ eti_k = 0

\* What the payloads of a PID that carries no E1 frames hold
NoSyncContents == {c \in EtinaContents : c.e1 = -1 /\ c.mf = -1}

\* One TS packet of the PID, payload only, no PUSI, continuity counter in
\* sequence, handed to processTsPacket
FeedPacketOf(contents) ==
    /\ \E content \in contents :
        /\ content.e1 >= 0 => E1Buffered < MaxSyncSearch
        /\ LET cc == IF cand.pid_state.active
                  THEN (cand.pid_state.last_cc + 1) % CC_RANGE ELSE 0
               pkt == [TsPacket(FALSE, 1, 0, cc) EXCEPT !.content = content]
           IN  \E sc \in {ScanProcessTsPacket(cand, pkt)} :
                   /\ cand' = Saturated(sc)
                   /\ eti_k' = (eti_k + Len(sc.eti_out)) % 2
    /\ UNCHANGED <<varsFIC, varsEM, varsPF, varsAF, varsTS, varsFeed, varsFIB, varsGSE,
                   varsStrip,
                   varsAsm, varsScan, varsDisc,
                   varsUdp, varsStream>>

FeedEtinaPacket == FeedPacketOf(EtinaContents)

\* The same for a PID on which the E1 sync search never succeeds
FeedNoSyncPacket == FeedPacketOf(NoSyncContents)

NextCand == FeedEtinaPacket

NextNoSync == FeedNoSyncPacket

---------------------------------------------------------------------------
(* Claims about ETI-NA detection and the ETI-NI frames *)

Abandoned ==
    /\ ~cand.pid_state.etina_candidate
    /\ cand.pid_state.etina_pipeline = NoParser
    /\ ~cand.pid_state.etina_streaming

\* C21: an ETI-NA candidate PID on which the E1 sync search never succeeds is
\* abandoned after a bounded amount of input: its candidate status is
\* cleared, its pipeline is released, and it never gets to be reported.
C21_CandidateAbandoned ==
    cand.pid_state.etina_candidate ~> Abandoned

\* The 32-bit word, most significant byte first, that 4 bytes stored least
\* significant byte first stand for
WordOf(bytes) == <<bytes[4], bytes[3], bytes[2], bytes[1]>>

\* C22: the ETI-NI frames the deinterleaver emits alternate their SYNC word,
\* starting with the even one: frame k (k = 0, 1, 2, ...) carries 0xb63a07ff
\* when k is even and 0x49c5f8ff when k is odd.
C22_SyncAlternates ==
    [][\A i \in 1..Len(cand'.eti_out) :
        cand' # cand =>
            WordOf(cand'.eti_out[i]) =
                (IF (eti_k + i - 1) % 2 = 0 THEN FSYNC0 ELSE FSYNC1)]_vars

\* An odd frame has been emitted: the second, or the fourth, ...
C22_Witness ==
    /\ cand.eti_out # <<>>
    /\ eti_k = 0
    /\ cand.eti_out[Len(cand.eti_out)] = <<255, 248, 197, 73>>

\* The pipeline of the PID had acquired multiframe sync before the packet
MultiframeSynced ==
    /\ cand.pid_state.etina_pipeline # NoParser
    /\ cand.pid_state.etina_pipeline.multiframe.multiframe_synced

\* C38: once multiframe sync has been acquired, every multiframe handed to
\* the deinterleaver begins at an E1 frame whose management byte marks block
\* 0 of superblock 0, also when the alignment of the stream has slipped since:
\* no ETI-NI frame comes out of a payload in which the multiframes start
\* elsewhere than at the head of the frame buffer.
C38_MultiframeStartsAtBlock0 ==
    [][\A content \in EtinaContents :
          ( /\ MultiframeSynced
            /\ FeedPacketOf({content})
            /\ cand'.eti_out # <<>> )
          => content.mf = 0]_vars

---------------------------------------------------------------------------
(* ETI-NI frames assembled from EDI TAG items *)

ETI_NI_RAW_SIZE == 6144
FCT_RANGE == 250
MaxAsmPackets == 2              \* AF packets assembled in one run

RECURSIVE BitOr(_, _)
BitOr(a, b) ==
    IF a = 0 THEN b
    ELSE IF b = 0 THEN a
    ELSE (IF a % 2 = 1 \/ b % 2 = 1 THEN 1 ELSE 0) + 2 * BitOr(a \div 2, b \div 2)

\* The loop over the streams that adds mst.size() / 4 to FL
RECURSIVE FlOfStreams(_, _, _)
FlOfStreams(b, i, fl) ==
    IF i > b.nst THEN fl
    ELSE FlOfStreams(b, i + 1, (fl + b.mst[i] \div 4) % WORD)

NoFrame == [absent |-> TRUE]

\* The frame that assemble_eti_frame writes, kept by the FC bytes eti[4..7]
\* and the number of FIC bytes and of MST bytes of each stream copied in
EtiFrameOf(b) ==
    LET fl == FlOfStreams(b, 1, (b.nst + 1 + b.fic_length \div 4) % WORD)
        fp_mid_fl == BitOr(BitOr((b.fp * 8192) % WORD, b.mid * 2048), fl)
    IN  [fct |-> (b.dflc % FCT_RANGE) % 256,
         ficf_nst |-> BitOr(IF b.ficf THEN 128 ELSE 0, b.nst),
         fl_hi |-> fp_mid_fl \div 256,
         fl_lo |-> fp_mid_fl % 256,
         fic |-> b.fic_length,
         mst |-> [i \in 1..b.nst |-> b.mst[i]]]

\* DABStreamParser::assemble_eti_frame
AssembleEtiFrame(b) == IF Assembles(b) THEN EtiFrameOf(b) ELSE NoFrame

\* idx after the header and the FIC, then after each stream, in
\* EdiParser::assembleEtiFrame: the streams fit the frame
RECURSIVE EdiStreamsFit(_, _, _)
EdiStreamsFit(b, i, idx) ==
    \/ i > b.nst
    \/ /\ idx + b.mst[i] <= ETI_NI_RAW_SIZE - 8
       /\ EdiStreamsFit(b, i + 1, idx + b.mst[i])

\* EdiParser::assembleEtiFrame
EdiAssembleEtiFrame(b) ==
    IF Assembles(b) /\ EdiStreamsFit(b, 1, 8 + b.nst * 4 + 4 + b.fic_length)
    THEN EtiFrameOf(b) ELSE NoFrame

\* The TAG items of the AF packets assembled: *ptr, deti with the FIC, and est
\* items of streams 1 and 2 with 6, 8, 16 or 3072 bytes of MST; a packet
\* without FIC; packets without a deti item
MstLens == {6, 8, 16, 3072}
EstOf(n, len) == [Est(n) EXCEPT !.mst = len]
EstItems ==
    {<<>>} \cup {<<EstOf(1, a)>> : a \in MstLens}
    \cup {<<EstOf(1, a), EstOf(2, c)>> : a \in MstLens, c \in MstLens}
AsmTagPackets ==
    {<<StarPtr(TRUE), [Deti(TRUE, mid, dflc) EXCEPT !.fp = fp]>> \o ests :
        mid \in {1, 3}, dflc \in {0, 251}, fp \in {0, 5}, ests \in EstItems}
    \cup {<<StarPtr(TRUE), Deti(FALSE, 1, 0), EstOf(1, 8)>>}
    \cup {<<StarPtr(TRUE)>>, <<StarPtr(TRUE), EstOf(1, 8)>>}

InitAsm ==
    /\ asm_edi = EDI_BuilderNew
    /\ asm_eti = EDI_BuilderNew
    /\ asm_frame = NoFrame
    /\ asm_edi_frame = NoFrame
    /\ asm_n = 0
    /\ asm_tags = <<>>

\* An AF packet that passes the checks, handed to a DABStreamParser and to an
\* EdiParser: the TAG items are decoded and the frame is assembled
AssembleFromTags ==
    /\ asm_n < MaxAsmPackets
    /\ \E tags \in AsmTagPackets :
        \E b \in {DecodeTagPacket(asm_edi, tags)} :
        \E e \in {DecodeTagPacket(asm_eti, tags)} :
            /\ asm_edi' = b
            /\ asm_eti' = e
            /\ asm_frame' = AssembleEtiFrame(b)
            /\ asm_edi_frame' = EdiAssembleEtiFrame(e)
            /\ asm_n' = asm_n + 1
            /\ asm_tags' = tags
    /\ UNCHANGED <<varsFIC, varsEM, varsPF, varsAF, varsTS, varsFeed, varsFIB, varsGSE,
                   varsStrip, varsCand, varsScan, varsDisc,
                   varsUdp, varsStream>>

NextAsm == AssembleFromTags

---------------------------------------------------------------------------
(* Claims about the ETI-NI frames assembled from EDI TAG items *)

RECURSIVE SumOf(_)
SumOf(seq) == IF seq = <<>> THEN 0 ELSE Head(seq) + SumOf(Tail(seq))

\* FL * 4 = NST * 4 + FIC_len + sum of the MST lengths + 4, FL and NST as
\* read from the frame
FlHolds(f) ==
    LET fl == (f.fl_hi % 8) * 256 + f.fl_lo
        nst == f.ficf_nst % 128
    IN  fl * 4 = nst * 4 + f.fic + SumOf(f.mst) + 4

\* C23: in every ETI-NI frame assembled from EDI TAG items the FL field
\* satisfies FL * 4 = NST * 4 + FIC_len + (sum of the MST lengths of all
\* sub-channels, in bytes) + 4.
C23_FrameLength ==
    /\ asm_frame # NoFrame => FlHolds(asm_frame)
    /\ asm_edi_frame # NoFrame => FlHolds(asm_edi_frame)

HasDeti(tags) == \E i \in DOMAIN tags : tags[i].id = "deti"

\* C35: an AF packet that contains no deti TAG item never causes an ETI
\* frame to be emitted from the frame characterisation, FIC or sub-channel
\* data an earlier AF packet left behind.
C35_NoFrameWithoutDeti ==
    (asm_n > 0 /\ ~HasDeti(asm_tags)) => asm_frame = NoFrame

\* One past the last byte assemble_eti_frame writes: SYNC and FC, the STC
\* entries, EOH, FIC, MST, then EOF and TIST
FrameEnd(f) == 8 + Len(f.mst) * 4 + 4 + f.fic + SumOf(f.mst) + 8

\* C36: what assemble_eti_frame writes never extends beyond the 6144 bytes of
\* the ETI-NI frame buffer; a TAG packet whose sub-channel data does not fit
\* yields no frame.
C36_FrameWithinBuffer ==
    asm_frame # NoFrame => FrameEnd(asm_frame) <= ETI_NI_RAW_SIZE

---------------------------------------------------------------------------
(* TsScanner::feed: when the scan ends, and what getResults returns then *)

DEFAULT_TIMEOUT_MS == 500
EARLY_EXIT_MS == 1000
MULTICAST_FIRST == 224
MULTICAST_LAST == 239
MaxElapsedMs == 1500            \* the scan is followed for this long
MaxFeedPackets == 1             \* TS packets with an effect in one feed() call

\* Stream keys by first octet of the destination IP and port; PIDs
ScanKeys == {<<239, 5000>>, <<224, 5001>>, <<10, 5000>>}
ScanPids == {100, 200}            \* PIDs without PUSI
MpePid == 300
Timeouts == {DEFAULT_TIMEOUT_MS, 1500}
ClockSteps == {0, 500}

NotStored == "absent"
BasicEnsemble == "basic"        \* an ensemble whose labels are not all there
FullEnsemble == "full"

ImplNew ==
    [mpe_pids |-> <<>>,
     is_mpe |-> {},
     etina_streaming |-> {},
     etina_streaming_pids |-> <<>>,
     etina_ensembles |-> [p \in ScanPids |-> NotStored],
     results_map |-> [k \in ScanKeys |-> NotStored],
     basic_ready_flags |-> {},
     complete_flags |-> {},
     complete_count |-> 0,
     timeout_ms |-> DEFAULT_TIMEOUT_MS,
     started |-> FALSE,
     done |-> FALSE]

\* What a TS packet does to the scanner: nothing the end of the scan depends
\* on; a first PUSI packet with table_id 0x3E on a PID; an IP/UDP packet out of
\* an MPE section, after which the stream's parser is or is not basic-ready and
\* complete; an ETI-NI frame out of the ETI-NA pipeline of a PID, after which
\* the PID's FIC parser is or is not basic-ready and complete
Effects ==
    {[kind |-> "none"]}
    \cup {[kind |-> "mpe", pid |-> MpePid]}
    \cup {[kind |-> "udp", key |-> k, basic |-> b, complete |-> c] :
            k \in ScanKeys, b \in BOOLEAN, c \in BOOLEAN}
    \cup {[kind |-> "eti", pid |-> p, basic |-> b, complete |-> c] :
            p \in ScanPids, b \in BOOLEAN, c \in BOOLEAN}
EffectSeqs == UNION {[1..n -> Effects] : n \in 0..MaxFeedPackets}

\* MPE detection in processTsPacket
ScanMpeDetected(s, pid) ==
    IF pid \in s.is_mpe THEN s
    ELSE [s EXCEPT !.is_mpe = @ \cup {pid}, !.mpe_pids = Append(@, pid)]

IsMulticast(key) == key[1] >= MULTICAST_FIRST /\ key[1] <= MULTICAST_LAST

\* onUdp, EnsembleManager::processUdp and the two callbacks of the scanner
ScanOnUdp(s, e) ==
    IF s.is_mpe = {} \/ ~IsMulticast(e.key) THEN s
    ELSE LET first_basic == e.basic /\ e.key \notin s.basic_ready_flags
             first_complete == e.complete /\ e.key \notin s.complete_flags
             now == IF e.complete THEN FullEnsemble ELSE BasicEnsemble
         IN  [s EXCEPT
                !.basic_ready_flags = IF first_basic THEN @ \cup {e.key} ELSE @,
                !.complete_flags = IF first_complete THEN @ \cup {e.key} ELSE @,
                !.complete_count = IF first_complete THEN @ + 1 ELSE @,
                !.results_map[e.key] =
                    IF first_complete THEN FullEnsemble
                    ELSE IF first_basic THEN now ELSE @]

\* The callback of etina_feed_payload in processTsPacket
ScanOnEtiFrame(s, e) ==
    IF e.pid \in s.is_mpe /\ e.pid \notin s.etina_streaming THEN s
    ELSE LET first == e.pid \notin s.etina_streaming
         IN  [s EXCEPT
                !.etina_streaming = @ \cup {e.pid},
                !.etina_streaming_pids = IF first THEN Append(@, e.pid) ELSE @,
                !.etina_ensembles[e.pid] = IF e.complete THEN FullEnsemble ELSE @]

ScanEffect(s, e) ==
    CASE e.kind = "mpe" -> ScanMpeDetected(s, e.pid)
      [] e.kind = "udp" -> ScanOnUdp(s, e)
      [] e.kind = "eti" -> ScanOnEtiFrame(s, e)
      [] OTHER -> s

RECURSIVE ScanEffects(_, _)
ScanEffects(s, effs) ==
    IF effs = <<>> THEN s ELSE ScanEffects(ScanEffect(s, Head(effs)), Tail(effs))

\* The streams whose parser has said is_basic_ready() while it was fed
RECURSIVE BasicReadySeen(_, _, _)
BasicReadySeen(s, seen, effs) ==
    IF effs = <<>> THEN seen
    ELSE LET e == Head(effs)
             handled == \/ e.kind = "udp" /\ s.is_mpe # {} /\ IsMulticast(e.key)
                        \/ e.kind = "eti" /\ (e.pid \notin s.is_mpe \/ e.pid \in s.etina_streaming)
         IN  BasicReadySeen(ScanEffect(s, e),
                            IF ~(handled /\ e.basic) THEN seen
                            ELSE IF e.kind = "udp"
                                 THEN [seen EXCEPT !.udp = @ \cup {e.key}]
                                 ELSE [seen EXCEPT !.etina = @ \cup {e.pid}],
                            Tail(effs))

\* The checks at the end of feed(), without the second of them
ScanFeedChecksNoCompletion(s, elapsed_ms) ==
    IF elapsed_ms >= s.timeout_ms THEN [s EXCEPT !.done = TRUE]
    ELSE IF /\ elapsed_ms >= EARLY_EXIT_MS
            /\ s.mpe_pids = <<>>
            /\ s.etina_streaming_pids = <<>>
            /\ \A k \in ScanKeys : s.results_map[k] = NotStored
         THEN [s EXCEPT !.done = TRUE]
         ELSE s

Stored(map) == {k \in DOMAIN map : map[k] # NotStored}

\* The completion check counts complete streams only
ScanChecksCountOnly(s, elapsed_ms) ==
    LET mpe_complete_count == s.complete_count
        mpe_basic_count == Cardinality(Stored(s.results_map))
        mpe_complete == mpe_basic_count = 0 \/ mpe_complete_count > 0
        etina_streaming_count == Len(s.etina_streaming_pids)
        etina_complete_count == Cardinality(Stored(s.etina_ensembles))
        etina_complete == etina_streaming_count = 0 \/ etina_complete_count > 0
        has_content == mpe_basic_count > 0 \/ etina_streaming_count > 0
    IN  IF elapsed_ms < s.timeout_ms /\ has_content /\ mpe_complete /\ etina_complete
        THEN [s EXCEPT !.done = TRUE]
        ELSE ScanFeedChecksNoCompletion(s, elapsed_ms)

\* The checks at the end of feed(): timeout, completion, early exit
ScanFeedChecks(s, elapsed_ms) ==
    LET mpe_complete_count == s.complete_count
        mpe_basic_count == Cardinality(Stored(s.results_map))
        mpe_complete == \/ mpe_basic_count = 0
                        \/ mpe_complete_count > 0 /\ mpe_complete_count >= mpe_basic_count
        etina_streaming_count == Len(s.etina_streaming_pids)
        etina_complete_count == Cardinality(Stored(s.etina_ensembles))
        etina_complete == \/ etina_streaming_count = 0
                          \/ etina_complete_count >= etina_streaming_count
        has_content == mpe_basic_count > 0 \/ etina_streaming_count > 0
    IN  IF elapsed_ms < s.timeout_ms /\ has_content /\ mpe_complete /\ etina_complete
        THEN [s EXCEPT !.done = TRUE]
        ELSE ScanFeedChecksNoCompletion(s, elapsed_ms)

\* TsScanner::getResults: the ensembles of results_map, then those of
\* etina_ensembles
ScanGetResults(s) ==
    [udp |-> [k \in Stored(s.results_map) |-> s.results_map[k]],
     etina |-> [p \in Stored(s.etina_ensembles) |-> s.etina_ensembles[p]]]

InitScan ==
    /\ impl = ImplNew
    /\ scan_elapsed = 0
    /\ scan_ret = 0
    /\ scan_first_done = FALSE
    /\ scan_basic_seen = [udp |-> {}, etina |-> {}]

\* TsScanner::setTimeout
SetTimeout ==
    /\ \E t \in Timeouts : impl' = [impl EXCEPT !.timeout_ms = t]
    /\ impl' # impl
    /\ scan_first_done' = FALSE
    /\ UNCHANGED <<scan_elapsed, scan_ret, scan_basic_seen>>
    /\ UNCHANGED <<varsFIC, varsEM, varsPF, varsAF, varsTS, varsFeed, varsFIB, varsGSE,
                   varsStrip, varsCand, varsAsm, varsDisc,
                   varsUdp, varsStream>>

\* One feed() call with whole TS packets, dt milliseconds after the call before
ScanFeed ==
    /\ scan_elapsed < MaxElapsedMs
    /\ \E dt \in ClockSteps, effs \in EffectSeqs :
        /\ IF impl.done
           THEN /\ impl' = impl
                /\ scan_ret' = 1
                /\ scan_elapsed' = scan_elapsed
                /\ scan_first_done' = FALSE
                /\ scan_basic_seen' = scan_basic_seen
           ELSE LET elapsed_ms == IF impl.started THEN scan_elapsed + dt ELSE dt
                    s1 == [impl EXCEPT !.started = TRUE]
                IN  /\ scan_elapsed' = elapsed_ms
                    /\ \E s2 \in {ScanEffects(s1, effs)} :
                        /\ impl' = ScanFeedChecks(s2, elapsed_ms)
                        /\ scan_ret' = IF impl'.done THEN 1 ELSE 0
                        /\ scan_first_done' = impl'.done
                        /\ scan_basic_seen' = BasicReadySeen(s1, scan_basic_seen, effs)
    /\ UNCHANGED <<varsFIC, varsEM, varsPF, varsAF, varsTS, varsFeed, varsFIB, varsGSE,
                   varsStrip, varsCand, varsAsm, varsDisc,
                   varsUdp, varsStream>>

NextScan == SetTimeout \/ ScanFeed

---------------------------------------------------------------------------
(* Claims about the end of the scan *)

TimeoutReached == scan_elapsed >= impl.timeout_ms

\* At least one ensemble is discovered, and every discovered stream, with a
\* UDP key or an ETI-NA PID, is complete
AllDiscoveredComplete ==
    /\ Stored(impl.results_map) # {} \/ Stored(impl.etina_ensembles) # {}
    /\ \A k \in Stored(impl.results_map) : k \in impl.complete_flags
    /\ \A p \in impl.etina_streaming : impl.etina_ensembles[p] = FullEnsemble

NothingAfterOneSecond ==
    /\ scan_elapsed >= EARLY_EXIT_MS
    /\ impl.mpe_pids = <<>>
    /\ impl.etina_streaming = {}
    /\ Stored(impl.results_map) = {}

\* C24: when feed returns 1 for the first time, the timeout has been reached,
\* or at least one ensemble is discovered and all discovered streams are
\* complete, or at least 1000 ms have passed with no MPE PID, no ETI-NA
\* streaming PID and no partial ensemble.
C24_DoneOnlyWhenTerminated ==
    scan_first_done =>
        TimeoutReached \/ AllDiscoveredComplete \/ NothingAfterOneSecond

\* Each of the three ways has ended a scan in which two streams were discovered
C24_Witness ==
    /\ scan_first_done
    /\ ~TimeoutReached
    /\ AllDiscoveredComplete
    /\ Stored(impl.results_map) # {}
    /\ impl.etina_streaming # {}

\* C25: when the scan stops by timeout before full completion, getResults
\* holds every ensemble whose stream had become basic-ready by then, with a UDP
\* key or an ETI-NA PID alike.
C25_TimeoutKeepsBasicReady ==
    scan_first_done /\ TimeoutReached /\ ~AllDiscoveredComplete =>
        /\ \A key \in scan_basic_seen.udp : key \in DOMAIN ScanGetResults(impl).udp
        /\ \A pid \in scan_basic_seen.etina : pid \in DOMAIN ScanGetResults(impl).etina

---------------------------------------------------------------------------
(* EnsembleDiscovery: fed IP packets, with an early and a total timeout *)

MaxDiscoveryMs == 2000          \* the discovery is followed for this long

EarlyTimeouts == {0, 500, 1500}
TotalTimeouts == {1000, 2000}

\* An IP packet by what UdpExtractor makes of it: rejected, or a UDP datagram
\* for a stream key after which the stream's parser is or is not complete
IpPackets ==
    {[kind |-> "rejected"]}
    \cup {[kind |-> "udp", key |-> k, complete |-> c] : k \in ScanKeys, c \in BOOLEAN}

DiscoveryNew(early_ms, total_ms) ==
    [parsers |-> {},
     complete_flags |-> {},
     complete_count |-> 0,
     results |-> <<>>,
     early_timeout_ms |-> early_ms,
     total_timeout_ms |-> total_ms,
     multicast_seen |-> FALSE,
     done |-> FALSE,
     failed |-> FALSE]

\* onUdp, EnsembleManager::processUdp and the complete callback
DiscoveryOnUdp(d, pkt) ==
    IF pkt.kind # "udp" \/ ~IsMulticast(pkt.key) THEN d
    ELSE LET first_complete == pkt.complete /\ pkt.key \notin d.complete_flags
         IN  [d EXCEPT
                !.multicast_seen = TRUE,
                !.parsers = @ \cup {pkt.key},
                !.complete_flags = IF first_complete THEN @ \cup {pkt.key} ELSE @,
                !.complete_count = IF first_complete THEN @ + 1 ELSE @,
                !.results = IF first_complete THEN Append(@, pkt.key) ELSE @]

\* EnsembleManager::allComplete
AllComplete(d) == d.parsers # {} /\ \A k \in d.parsers : k \in d.complete_flags

\* The total timeout in checkTimeout
CheckTotalTimeout(d, elapsed_ms) ==
    IF elapsed_ms >= d.total_timeout_ms
    THEN [state |-> [d EXCEPT !.done = TRUE],
          ret |-> IF d.results = <<>> THEN -1 ELSE 1, why |-> "total"]
    ELSE [state |-> d, ret |-> 0, why |-> "none"]

\* Only the total timeout is looked at
CheckTimeoutTotalOnly(d, elapsed_ms) == CheckTotalTimeout(d, elapsed_ms)

\* The early timeout is looked at after multicast has been seen, too
CheckTimeoutAlwaysEarly(d, elapsed_ms) ==
    IF elapsed_ms >= d.early_timeout_ms
    THEN [state |-> [d EXCEPT !.failed = TRUE, !.done = TRUE], ret |-> -1, why |-> "early"]
    ELSE CheckTotalTimeout(d, elapsed_ms)

\* EnsembleDiscovery::Impl::checkTimeout
CheckTimeout(d, elapsed_ms) ==
    IF ~d.multicast_seen /\ elapsed_ms >= d.early_timeout_ms
    THEN [state |-> [d EXCEPT !.failed = TRUE, !.done = TRUE], ret |-> -1, why |-> "early"]
    ELSE CheckTotalTimeout(d, elapsed_ms)

\* feedIpPacket that does not set done when all ensembles are complete
FeedIpPacketNoLatch(d, pkt, elapsed_ms) ==
    IF d.done
    THEN [state |-> d, ret |-> IF d.results = <<>> THEN -1 ELSE 1, why |-> "done"]
    ELSE LET d1 == DiscoveryOnUdp(d, pkt)
         IN  IF AllComplete(d1) /\ d1.complete_count > 0
             THEN [state |-> d1, ret |-> 1, why |-> "complete"]
             ELSE CheckTimeout(d1, elapsed_ms)

\* EnsembleDiscovery::feedIpPacket
FeedIpPacket(d, pkt, elapsed_ms) ==
    IF d.done
    THEN [state |-> d, ret |-> IF d.results = <<>> THEN -1 ELSE 1, why |-> "done"]
    ELSE LET d1 == DiscoveryOnUdp(d, pkt)
         IN  IF AllComplete(d1) /\ d1.complete_count > 0
             THEN [state |-> [d1 EXCEPT !.done = TRUE], ret |-> 1, why |-> "complete"]
             ELSE CheckTimeout(d1, elapsed_ms)

NoDiscovery == [constructed |-> FALSE]

InitDisc ==
    /\ disc = NoDiscovery
    /\ disc_elapsed = 0
    /\ disc_ret = 0
    /\ disc_why = "none"
    /\ disc_done_at = 0
    /\ disc_unicast_only = TRUE
    /\ disc_unicast_late = FALSE

\* EnsembleDiscovery(early_timeout_ms, total_timeout_ms)
Construct ==
    /\ disc = NoDiscovery
    /\ \E early_ms \in EarlyTimeouts, total_ms \in TotalTimeouts :
        disc' = DiscoveryNew(early_ms, total_ms)
    /\ UNCHANGED <<disc_elapsed, disc_ret, disc_why, disc_done_at, disc_unicast_only,
                   disc_unicast_late>>
    /\ UNCHANGED <<varsFIC, varsEM, varsPF, varsAF, varsTS, varsFeed, varsFIB, varsGSE,
                   varsStrip, varsCand, varsAsm, varsScan, varsUdp, varsStream>>

\* One feedIpPacket call, dt milliseconds after the call before (or after
\* construction)
CallFeedIpPacket ==
    /\ disc # NoDiscovery
    /\ disc_elapsed < MaxDiscoveryMs
    /\ \E dt \in ClockSteps, pkt \in IpPackets :
        \E r \in {FeedIpPacket(disc, pkt, disc_elapsed + dt)} :
            LET unicast == pkt.kind = "udp" /\ ~IsMulticast(pkt.key)
            IN  /\ disc' = r.state
                /\ disc_elapsed' = disc_elapsed + dt
                /\ disc_ret' = r.ret
                /\ disc_why' = IF r.why = "done" THEN disc_why ELSE r.why
                /\ disc_done_at' = IF ~disc.done /\ r.state.done
                                   THEN disc_elapsed + dt ELSE disc_done_at
                /\ disc_unicast_only' = (disc_unicast_only /\ unicast)
                /\ disc_unicast_late' =
                       \/ disc_unicast_late
                       \/ /\ disc_unicast_only /\ unicast
                          /\ disc_elapsed + dt >= disc.early_timeout_ms
    /\ UNCHANGED <<varsFIC, varsEM, varsPF, varsAF, varsTS, varsFeed, varsFIB, varsGSE,
                   varsStrip, varsCand, varsAsm, varsScan,
                   varsUdp, varsStream>>

NextDisc == Construct \/ CallFeedIpPacket

---------------------------------------------------------------------------
(* Claims about EnsembleDiscovery *)

\* C26: a discovery fed only unicast UDP packets returns -1 from the first
\* feedIpPacket call made at or after early_ms, and from then on isDone() is
\* true and hasEnsembles() is false.
C26_UnicastOnlyFailsEarly ==
    disc_unicast_late => disc_ret = -1 /\ disc.done /\ disc.results = <<>>

\* The failure has come before the total timeout, and calls have followed it
C26_Witness ==
    /\ disc_unicast_late
    /\ disc_done_at < disc.total_timeout_ms
    /\ disc_elapsed > disc_done_at
    /\ disc_ret = -1

\* C27: once a multicast UDP packet has been seen, feedIpPacket reports no
\* timeout result (-1, or 1 by timeout) before total_ms has elapsed.
C27_NoEarlyTimeoutAfterMulticast ==
    disc # NoDiscovery /\ disc.multicast_seen /\ disc_why \in {"early", "total"} =>
        disc_done_at >= disc.total_timeout_ms

\* Multicast was seen, early_ms has passed and the discovery goes on
C27_Witness ==
    /\ disc # NoDiscovery
    /\ disc.multicast_seen
    /\ disc_elapsed >= disc.early_timeout_ms
    /\ disc_elapsed < disc.total_timeout_ms
    /\ disc_ret = 0
    /\ ~disc.done

\* C28: when feedIpPacket returns 1 getResults() is not empty, when it returns
\* -1 getResults() is empty, and after a non-zero return it never returns 0.
C28_ReturnMatchesResults ==
    [][/\ disc_ret' = 1 => disc'.results # <<>>
       /\ disc_ret' = -1 => disc'.results = <<>>
       /\ disc_ret # 0 => disc_ret' # 0]_vars

\* A call after the one that returned 1 for completion has returned 1 again
C28_Witness ==
    /\ disc_ret = 1
    /\ disc_why = "complete"
    /\ disc_elapsed > disc_done_at
    /\ Len(disc.results) = 2

---------------------------------------------------------------------------
(* UDP extraction from IPv4 datagrams *)

MIN_IP_UDP_LEN == 28
UDP_HEADER_LEN == 8
IPPROTO_UDP == 17
MaxDatagrams == 2               \* datagrams handled in one run

\* An IPv4 datagram by its length and the header fields the extraction reads
Datagrams ==
    [len : {27, 28, 36, 60}, version : {4, 6}, ihl : {4, 5, 6, 15},
     protocol : {IPPROTO_UDP, 6}, udp_len : {7, 8, 16, 40, 1000}]

Rejected == [ok |-> FALSE, payload |-> 0, payload_len |-> 0]

\* extractUdpFromIpv4: the payload as offset into the datagram and length
ExtractUdpFromIpv4(dg) ==
    LET ip_hdr == dg.ihl * 4
    IN  IF dg.len < MIN_IP_UDP_LEN THEN Rejected
        ELSE IF dg.version # 4 THEN Rejected
        ELSE IF dg.protocol # IPPROTO_UDP THEN Rejected
        ELSE IF ip_hdr < IPV4_MIN_HEADER \/ ip_hdr + UDP_HEADER_LEN > dg.len THEN Rejected
        ELSE IF dg.udp_len < UDP_HEADER_LEN THEN Rejected
        ELSE [ok |-> TRUE, payload |-> ip_hdr + UDP_HEADER_LEN,
              payload_len |-> dg.udp_len - UDP_HEADER_LEN]

\* EnsembleManager::processIpPacket: the payload handed to processUdp
ProcessIpPacket(dg) ==
    LET ip_hdr_len == dg.ihl * 4
    IN  IF dg.len < MIN_IP_UDP_LEN THEN Rejected
        ELSE IF dg.version # 4 THEN Rejected
        ELSE IF ip_hdr_len < IPV4_MIN_HEADER \/ ip_hdr_len > dg.len THEN Rejected
        ELSE IF dg.protocol # IPPROTO_UDP THEN Rejected
        ELSE IF dg.len < ip_hdr_len + UDP_HEADER_LEN THEN Rejected
        ELSE IF dg.udp_len < UDP_HEADER_LEN \/ dg.udp_len > dg.len - ip_hdr_len THEN Rejected
        ELSE IF dg.udp_len - UDP_HEADER_LEN > 0
             THEN [ok |-> TRUE, payload |-> ip_hdr_len + UDP_HEADER_LEN,
                   payload_len |-> dg.udp_len - UDP_HEADER_LEN]
             ELSE Rejected

InitUdp ==
    /\ udp_in = <<>>
    /\ udp_out = Rejected
    /\ udp_em_out = Rejected
    /\ udp_n = 0

\* One datagram handed to UdpExtractor::process and to
\* EnsembleManager::processIpPacket
HandleDatagram ==
    /\ udp_n < MaxDatagrams
    /\ \E dg \in Datagrams :
        /\ udp_in' = <<dg>>
        /\ udp_out' = ExtractUdpFromIpv4(dg)
        /\ udp_em_out' = ProcessIpPacket(dg)
    /\ udp_n' = udp_n + 1
    /\ UNCHANGED <<varsFIC, varsEM, varsPF, varsAF, varsTS, varsFeed, varsFIB, varsGSE,
                   varsStrip, varsCand, varsAsm, varsScan, varsDisc, varsStream>>

NextUdp == HandleDatagram

---------------------------------------------------------------------------
(* Claims about UDP extraction *)

\* What the claim asks of the outcome for a datagram
ExtractionSound(dg, out) ==
    /\ dg.len < MIN_IP_UDP_LEN => ~out.ok
    /\ dg.udp_len < UDP_HEADER_LEN => ~out.ok
    /\ dg.udp_len > dg.len - dg.ihl * 4 => ~out.ok
    /\ out.ok => out.payload >= 0 /\ out.payload + out.payload_len <= dg.len

\* C29: UDP extraction rejects every IPv4 datagram shorter than 28 bytes, or
\* with a UDP length field below 8, or with a UDP length field above the bytes
\* that remain after the IP header; the payload of every accepted datagram
\* lies within the datagram.
C29_ExtractionInBounds ==
    udp_in # <<>> =>
        /\ ExtractionSound(udp_in[1], udp_out)
        /\ ExtractionSound(udp_in[1], udp_em_out)

---------------------------------------------------------------------------
(* UdpTsStreamer: the producer in sendPacket, stop(), and the sender thread *)

TS_PKT_SIZE == 188
DEFAULT_PACKETS_PER_DATAGRAM == 7
MaxSendCalls == 4               \* sendPacket calls in one run
LargestCapacity == 2            \* the largest queue capacity looked at

PacketsPerDatagram == {1, 2}

\* The streamer after construction; the TS packets are numbered as they are
\* handed to sendPacket, and a datagram is the sequence of its packets
StreamerNew ==
    [running |-> FALSE,
     packet_queue |-> <<>>,
     packets_per_datagram |-> DEFAULT_PACKETS_PER_DATAGRAM,
     datagram_buffer |-> [i \in 1..DEFAULT_PACKETS_PER_DATAGRAM |-> 0],
     datagram_offset |-> 0,
     datagrams_sent |-> 0,
     packets_sent |-> 0]

\* The first datagram_offset bytes of the datagram buffer
BufferedPackets(s) ==
    [i \in 1..Min(s.datagram_offset \div TS_PKT_SIZE, Len(s.datagram_buffer)) |->
        s.datagram_buffer[i]]

\* The sender takes the datagram queued last
TakeBack(queue) == [datagram |-> queue[Len(queue)], rest |-> SubSeq(queue, 1, Len(queue) - 1)]

\* packet_queue_.front() and pop()
TakeFront(queue) == [datagram |-> Head(queue), rest |-> Tail(queue)]

InitStream ==
    /\ streamer = StreamerNew
    /\ producer_pc = "idle"
    /\ sender_pc = "none"
    /\ stop_pc = "idle"
    /\ sender_datagram = <<>>
    /\ wire = <<>>
    /\ enqueued = <<>>
    /\ stop_enqueued = <<>>
    /\ send_calls = 0

StreamOthers ==
    UNCHANGED <<varsFIC, varsEM, varsPF, varsAF, varsTS, varsFeed, varsFIB, varsGSE,
                varsStrip, varsCand, varsAsm, varsScan, varsDisc, varsUdp>>

\* setPacketsPerDatagram, before start()
SetPacketsPerDatagram ==
    /\ sender_pc = "none" /\ producer_pc = "idle"
    /\ \E count \in PacketsPerDatagram :
        streamer' = [streamer EXCEPT !.packets_per_datagram = count,
                                     !.datagram_buffer = [i \in 1..count |-> 0]]
    /\ streamer' # streamer
    /\ UNCHANGED <<producer_pc, sender_pc, stop_pc, sender_datagram, wire, enqueued,
                   stop_enqueued, send_calls>>
    /\ StreamOthers

\* start(): running_ = true and the sender thread is launched
StreamerStart ==
    /\ sender_pc = "none"
    /\ streamer.packets_per_datagram \in PacketsPerDatagram
    /\ ~streamer.running
    /\ streamer' = [streamer EXCEPT !.running = TRUE]
    /\ sender_pc' = "loop"
    /\ UNCHANGED <<producer_pc, stop_pc, sender_datagram, wire, enqueued, stop_enqueued,
                   send_calls>>
    /\ StreamOthers

\* sendPacket, entry: a packet of 188 bytes; returns if the streamer is not
\* running
SendPacketEnter ==
    /\ producer_pc = "idle"
    /\ sender_pc # "none"
    /\ send_calls < MaxSendCalls
    /\ send_calls' = send_calls + 1
    /\ producer_pc' = IF streamer.running THEN "copy" ELSE "idle"
    /\ UNCHANGED <<streamer, sender_pc, stop_pc, sender_datagram, wire, enqueued,
                   stop_enqueued>>
    /\ StreamOthers

\* sendPacket: memcpy into the datagram buffer, datagram_offset_ += 188
SendPacketCopy ==
    /\ producer_pc = "copy"
    /\ LET slot == streamer.datagram_offset \div TS_PKT_SIZE + 1
       IN  streamer' = [streamer EXCEPT
                !.datagram_buffer = IF slot \in DOMAIN @
                                    THEN [@ EXCEPT ![slot] = send_calls] ELSE @,
                !.datagram_offset = @ + TS_PKT_SIZE]
    /\ producer_pc' = "test"
    /\ UNCHANGED <<sender_pc, stop_pc, sender_datagram, wire, enqueued, stop_enqueued,
                   send_calls>>
    /\ StreamOthers

\* sendPacket: is the buffer full
SendPacketTest ==
    /\ producer_pc = "test"
    /\ producer_pc' = IF streamer.datagram_offset >= streamer.packets_per_datagram * TS_PKT_SIZE
                      THEN "push" ELSE "idle"
    /\ UNCHANGED <<streamer, sender_pc, stop_pc, sender_datagram, wire, enqueued,
                   stop_enqueued, send_calls>>
    /\ StreamOthers

\* sendPacket, under queue_mutex_: the buffered bytes are pushed as one
\* datagram, datagram_offset_ = 0, notify_one
SendPacketPush ==
    /\ producer_pc = "push"
    /\ \E dg \in {BufferedPackets(streamer)} :
        /\ streamer' = [streamer EXCEPT !.packet_queue = Append(@, dg),
                                        !.datagram_offset = 0]
        /\ enqueued' = Append(enqueued, dg)
    /\ producer_pc' = "idle"
    /\ UNCHANGED <<sender_pc, stop_pc, sender_datagram, wire, stop_enqueued, send_calls>>
    /\ StreamOthers

\* stop(): running_ = false, notify_all
StopCall ==
    /\ stop_pc = "idle"
    /\ sender_pc # "none"
    /\ streamer.running
    /\ streamer' = [streamer EXCEPT !.running = FALSE]
    /\ stop_pc' = "join"
    /\ stop_enqueued' = enqueued
    /\ UNCHANGED <<producer_pc, sender_pc, sender_datagram, wire, enqueued, send_calls>>
    /\ StreamOthers

\* stop(): sender_thread_.join() returns, the socket is closed
StopJoin ==
    /\ stop_pc = "join"
    /\ sender_pc = "exited"
    /\ stop_pc' = "stopped"
    /\ UNCHANGED <<streamer, producer_pc, sender_pc, sender_datagram, wire, enqueued,
                   stop_enqueued, send_calls>>
    /\ StreamOthers

\* senderThread: while (running_.load())
SenderLoop ==
    /\ sender_pc = "loop"
    /\ sender_pc' = IF streamer.running THEN "wait" ELSE "flush"
    /\ UNCHANGED <<streamer, producer_pc, stop_pc, sender_datagram, wire, enqueued,
                   stop_enqueued, send_calls>>
    /\ StreamOthers

\* senderThread, under queue_mutex_ after wait_for has returned (a datagram is
\* queued, the streamer is stopped, or 100 ms have passed): break, continue,
\* or take the front datagram
SenderTake ==
    /\ sender_pc = "wait"
    /\ IF ~streamer.running /\ streamer.packet_queue = <<>>
       THEN /\ sender_pc' = "flush"
            /\ UNCHANGED <<streamer, sender_datagram>>
       ELSE IF streamer.packet_queue = <<>>
       THEN /\ sender_pc' = "loop"
            /\ UNCHANGED <<streamer, sender_datagram>>
       ELSE \E t \in {TakeFront(streamer.packet_queue)} :
            /\ sender_datagram' = t.datagram
            /\ streamer' = [streamer EXCEPT !.packet_queue = t.rest]
            /\ sender_pc' = "send"
    /\ UNCHANGED <<producer_pc, stop_pc, wire, enqueued, stop_enqueued, send_calls>>
    /\ StreamOthers

\* senderThread: sendto of the datagram taken, and the statistics
SenderSend ==
    /\ sender_pc = "send"
    /\ wire' = Append(wire, [from |-> "queue", datagram |-> sender_datagram])
    /\ \E sent_ok \in BOOLEAN :
        streamer' = [streamer EXCEPT
            !.datagrams_sent = IF sent_ok /\ sender_datagram # <<>> THEN @ + 1 ELSE @,
            !.packets_sent = IF sent_ok THEN @ + Len(sender_datagram) ELSE @]
    /\ sender_pc' = "loop"
    /\ UNCHANGED <<producer_pc, stop_pc, sender_datagram, enqueued, stop_enqueued,
                   send_calls>>
    /\ StreamOthers

\* senderThread after the loop: if (datagram_offset_ > 0)
SenderFlushTest ==
    /\ sender_pc = "flush"
    /\ sender_pc' = IF streamer.datagram_offset > 0 THEN "flush_send" ELSE "exited"
    /\ UNCHANGED <<streamer, producer_pc, stop_pc, sender_datagram, wire, enqueued,
                   stop_enqueued, send_calls>>
    /\ StreamOthers

\* senderThread: sendto of the buffered bytes, the statistics,
\* datagram_offset_ = 0
SenderFlushSend ==
    /\ sender_pc = "flush_send"
    /\ wire' = Append(wire, [from |-> "buffer", datagram |-> BufferedPackets(streamer)])
    /\ \E sent_ok \in BOOLEAN :
        streamer' = [streamer EXCEPT
            !.datagrams_sent = IF sent_ok /\ streamer.datagram_offset > 0 THEN @ + 1 ELSE @,
            !.packets_sent = IF sent_ok THEN @ + streamer.datagram_offset \div TS_PKT_SIZE
                             ELSE @,
            !.datagram_offset = 0]
    /\ sender_pc' = "exited"
    /\ UNCHANGED <<producer_pc, stop_pc, sender_datagram, enqueued, stop_enqueued,
                   send_calls>>
    /\ StreamOthers

NextStream ==
    \/ SetPacketsPerDatagram \/ StreamerStart
    \/ SendPacketEnter \/ SendPacketCopy \/ SendPacketTest \/ SendPacketPush
    \/ StopCall \/ StopJoin
    \/ SenderLoop \/ SenderTake \/ SenderSend \/ SenderFlushTest \/ SenderFlushSend

---------------------------------------------------------------------------
(* Claims about UdpTsStreamer *)

\* C31: whatever the interleaving of producer and sender, the number of
\* queued datagrams never exceeds a fixed capacity (here: any capacity up to
\* LargestCapacity).
C31_QueueBounded == Len(streamer.packet_queue) <= LargestCapacity

\* The datagrams the sender took from the queue and sent, in order
RECURSIVE FromQueue(_)
FromQueue(w) ==
    IF w = <<>> THEN <<>>
    ELSE IF Head(w).from = "queue" THEN <<Head(w).datagram>> \o FromQueue(Tail(w))
    ELSE FromQueue(Tail(w))

IsPrefix(s, t) == Len(s) <= Len(t) /\ s = SubSeq(t, 1, Len(s))

\* C32: the datagrams are transmitted in exactly the order in which sendPacket
\* enqueued them, none twice: what has been sent from the queue is the
\* beginning of what has been enqueued.
C32_SentInQueueOrder == IsPrefix(FromQueue(wire), enqueued)

\* Two datagrams have been sent while a third one, enqueued meanwhile, waits
C32_Witness ==
    /\ Len(FromQueue(wire)) = 2
    /\ Len(enqueued) = 3
    /\ Len(streamer.packet_queue) = 1
    /\ FromQueue(wire)[1] # FromQueue(wire)[2]

\* C39: when the sender thread has exited, every datagram enqueued before
\* stop() was called has been transmitted.
C39_QueueDrainedOnStop ==
    sender_pc = "exited" => IsPrefix(stop_enqueued, FromQueue(wire))

\* C40: the sender thread never reads or writes datagram_buffer_ and
\* datagram_offset_ while the producer is reading or writing them in
\* sendPacket.
C40_BufferNotShared ==
    ~(/\ sender_pc \in {"flush", "flush_send"}
      /\ producer_pc \in {"copy", "test", "push"})

---------------------------------------------------------------------------
Init == InitFIC /\ InitEM /\ InitPF /\ InitAF /\ InitTS /\ InitFeed /\ InitFIB /\ InitGSE
    /\ InitStrip /\ InitCand /\ InitAsm /\ InitScan
    /\ InitDisc /\ InitUdp /\ InitStream

SpecFIC == Init /\ [][NextFIC]_vars

SpecEM == Init /\ [][NextEM]_vars

SpecPF == Init /\ [][NextPF]_vars

SpecAF == Init /\ [][NextAF]_vars

SpecTS == Init /\ [][NextTS]_vars

SpecFeed == Init /\ [][NextFeed]_vars

SpecFIB == Init /\ [][NextFIB]_vars

SpecGSE == Init /\ [][NextGSE]_vars

SpecStrip == Init /\ [][NextStrip]_vars

SpecCand == Init /\ [][NextCand]_vars

SpecAsm == Init /\ [][NextAsm]_vars

SpecScan == Init /\ [][NextScan]_vars

SpecDisc == Init /\ [][NextDisc]_vars

SpecUdp == Init /\ [][NextUdp]_vars

SpecStream == Init /\ [][NextStream]_vars

\* A PID without E1 sync whose TS packets keep arriving
SpecNoSync == Init /\ [][NextNoSync]_vars /\ WF_vars(FeedNoSyncPacket)

Next == NextFIC \/ NextEM \/ NextPF \/ NextAF \/ NextTS \/ NextFeed \/ NextFIB \/ NextGSE
    \/ NextStrip \/ NextCand \/ NextAsm \/ NextScan
    \/ NextDisc \/ NextUdp \/ NextStream

Spec == Init /\ [][Next]_vars

=============================================================================
